---- MODULE Spec2Model ----
(***************************************************************************)
(* Model of the tell-cpp client: the ingest facade (src/src/client.cpp),   *)
(* the background worker with its ingest channel, staging vectors and      *)
(* flush logic (src/src/worker.cpp, src/src/worker.hpp) and the framed     *)
(* transport as far as the worker observes it (src/src/transport.cpp).     *)
(***************************************************************************)
EXTENDS Integers, Sequences, FiniteSets, TLC

(* ---------------------------------------------------------------- bounds *)

\* Channel capacity. The program's value is 10000 (worker.hpp:95); the model
\* runs the same code with a small capacity so that overflow is reachable.
MAX_QUEUE_SIZE == 2

\* TellConfig::batch_size_ as configured for the modelled client.
batch_size == 2

\* Number of facade calls the producers make in one behaviour.
MaxCalls == 3

\* Number of transport sends the network lets fail in one behaviour.
MaxFail == 1

\* The largest max_retries the modelled configurations use.
MaxRetries == 2

\* Size of the retry pool. The program's value is 8 (worker.hpp:111); the
\* model runs the same code with a small pool so that a full pool is reachable.
MAX_RETRY_THREADS == 2

\* Facade calls made in all in the specifications of the super properties
\* and the session.
MaxFacadeCalls == 4

\* Calls made in all by the threads that run concurrently with the worker.
MaxConcurrentCalls == 2

\* Longest port text, after the last ':', that the endpoints enumerate.
MaxPortLen == 3

\* send_frame calls made on the transport that is modelled on its own.
MaxSends == 3

\* Failures (of a connect or of a send) the network deals that transport.
MaxTxFail == 2

\* close_connection calls the owner of that transport makes.
MaxCloses == 2

\* The most bytes the destination buffer holds before an encoder is called.
MaxStart == 5

\* The most entries of a vector given to a data container.
MaxEntries == 2

(* ------------------------------------------------------------- constants *)

\* Worker::batch_counter_{1}: the id of the first batch.
FirstBatchId == 1

MaxEventName == 256

MaxLogMessage == 65536

MaxServiceName == 256

Producers == {"p1", "p2"}

(* ----------------------------------------------------------------- state *)

VARIABLES
    queue_,          \* Worker::queue_ : the ingest channel
    mutex_,          \* Worker::mutex_ : "free" or the thread that holds it
    wake,            \* a cv_.notify_one() delivered to the sleeping worker
    deadline,        \* steady_clock::now() >= next_flush
    wpc,             \* position of the worker thread in Worker::run
    ret,             \* where the worker continues after send_or_retry
    local_queue,     \* run(): local_queue
    should_flush,    \* run(): should_flush
    should_close,    \* run(): should_close
    completions,     \* run(): completions
    event_queue_,    \* Worker::event_queue_
    log_queue_,      \* Worker::log_queue_
    batch_counter_,  \* Worker::batch_counter_
    running_,        \* Worker::running_
    inflight,        \* the batch the worker is sending (batch_buf_)
    socket_fd_,      \* TcpTransport::socket_fd_ of the worker's transport
    max_retries,     \* TellConfig::max_retries_
    retry_threads_,  \* Worker::retry_threads_ with each thread's progress
    nfail,           \* sends that have failed so far
    frames,          \* every send_frame call made so far, in order
    errors,          \* every on_error callback made so far, in order
    promise,         \* state of each completion promise
    round_sigs,      \* handles of the signals drained in the current round
    pc,              \* position of each producer thread
    callno,          \* calls made by each producer
    waiting,         \* the handle a producer waits on in flush()/close()
    last_return,     \* how each producer's latest flush()/close() returned
    enqueued,        \* every message pushed into the channel so far
    accepted,        \* records enqueued before any close() was called
    evicted,         \* messages dropped from the channel by overflow
    close_called,    \* some thread has called close()
    super_props_map,   \* Tell::Inner::super_props_map
    super_props_mutex, \* Tell::Inner::super_props_mutex: exclusive and shared holders
    session_mutex,     \* Tell::Inner::session_mutex: exclusive and shared holders
    session_id,        \* Tell::Inner::session_id, as its two 8-byte halves
    uuids,             \* how many values generate_uuid has returned
    local,             \* the locals of each calling thread's facade call
    mutlog,            \* the register_props/unregister calls that have returned, in order
    placed,            \* every event pushed with its payload, session id and history
    device_id,         \* Tell::Inner::device_id
    dpc,               \* position of the thread that runs Worker::~Worker
    joins,             \* how many join() calls have returned, by kind of thread
    ctor,              \* the construction of the client: its inputs and progress
    tx,                \* one TcpTransport on its own: its socket, its send_frame
                       \* in progress, and what its peers have received
    enc                \* one call of an encoder: its arguments and its output

vars == << queue_, mutex_, wake, deadline, wpc, ret, local_queue, should_flush,
           should_close, completions, event_queue_, log_queue_, batch_counter_,
           running_, inflight, socket_fd_, max_retries, retry_threads_, nfail,
           frames, errors, promise, round_sigs, pc, callno, waiting,
           last_return, enqueued, accepted, evicted, close_called,
           super_props_map, super_props_mutex, session_mutex, session_id, uuids,
           local, mutlog, placed, device_id, dpc, joins, ctor, tx, enc >>

workerVars == << wpc, ret, local_queue, should_flush, should_close, completions,
                 event_queue_, log_queue_, batch_counter_, running_, inflight,
                 socket_fd_, retry_threads_, nfail, frames, round_sigs >>

\* The state of Tell::Inner that the calling threads share, and their locals.
\* The state of the parts that are also modelled on their own: the
\* construction of the client, a single transport and a call of an encoder.
setupVars == << ctor, tx, enc >>

\* The state of the construction and of the destruction of the worker.
lifeVars == << dpc, joins, setupVars >>

sharedVars == << super_props_map, super_props_mutex, session_mutex, session_id,
                uuids, local, mutlog, placed, device_id, lifeVars >>

producerVars == << pc, callno, waiting, last_return, enqueued, accepted, close_called,
                  sharedVars >>

NoMsg == [t |-> "none", p |-> "none", n |-> 0, event_type |-> "none", name |-> ""]

\* A std::shared_mutex nobody holds.
Unlocked == [w |-> "none", r |-> {}]

\* The locals of a thread that is not inside a facade call.
NoLocal == [c |-> [op |-> "none"], sp_raw |-> << >>, payload |-> << >>,
            session_id |-> << 0, 0 >>, uuid |-> << 0, 0 >>, i |-> 0, seen |-> 0]

NoFrame == [schema_type |-> "Unknown", batch_id |-> 0, recs |-> << >>]

(* ---------------------------------------------------------- construction *)

\* Strings of the configuration are sequences of bytes (ASCII codes).

\* The lambda hex_val of validate_and_decode_api_key.
hex_val(c) ==
    IF c >= 48 /\ c <= 57 THEN c - 48
    ELSE IF c >= 97 /\ c <= 102 THEN c - 97 + 10
    ELSE IF c >= 65 /\ c <= 70 THEN c - 65 + 10
    ELSE -1

\* The api_key length the decoder asks for.
ApiKeyLen == 32

Thrown(kind) == [ok |-> FALSE, kind |-> kind]

\* validate_and_decode_api_key: the 16 bytes, or the error it throws.
validate_and_decode_api_key(api_key) ==
    IF Len(api_key) # ApiKeyLen THEN Thrown("Configuration")
    ELSE IF \E i \in 0..15 : hex_val(api_key[i * 2 + 1]) < 0 \/ hex_val(api_key[i * 2 + 2]) < 0
         THEN Thrown("Configuration")
    ELSE [ok |-> TRUE,
          bytes |-> [i \in 1..16 |->
                        hex_val(api_key[2 * i - 1]) * 16 + hex_val(api_key[2 * i])]]

\* std::string::rfind(':'): the last position of the byte, 0 for npos.
rfind(s, c) ==
    IF \E i \in 1..Len(s) : s[i] = c
    THEN CHOOSE i \in 1..Len(s) : s[i] = c /\ \A j \in (i + 1)..Len(s) : s[j] # c
    ELSE 0

\* isspace in the "C" locale.
IsSpace(c) == c = 32 \/ (c >= 9 /\ c <= 13)

IsDigit(c) == c >= 48 /\ c <= 57

\* The first position from i on that does not hold white space.
RECURSIVE SkipSpace(_, _)
SkipSpace(s, i) ==
    IF i <= Len(s) /\ IsSpace(s[i]) THEN SkipSpace(s, i + 1) ELSE i

\* The first position from i on that does not hold a digit.
RECURSIVE DigitsEnd(_, _)
DigitsEnd(s, i) ==
    IF i <= Len(s) /\ IsDigit(s[i]) THEN DigitsEnd(s, i + 1) ELSE i

INT_MAX == 2147483647

INT_MIN == 0 - INT_MAX - 1

\* strtol's accumulation of the digits of s onto acc, kept negative so that
\* INT_MIN is representable: the value, or the overflow past the limit.
RECURSIVE Accumulate(_, _, _)
Accumulate(s, acc, limit) ==
    IF s = << >> THEN [ok |-> TRUE, value |-> acc]
    ELSE LET d == s[1] - 48 IN
         IF acc < (limit + d + 9) \div 10 THEN Thrown("out_of_range")
         ELSE Accumulate(Tail(s), 10 * acc - d, limit)

\* std::stoi(str): strtol with base 10 skips leading white space, takes an
\* optional sign and then the longest run of digits, and ignores what
\* follows; it throws invalid_argument when there is no digit and
\* out_of_range when the value does not fit an int.
stoi(str) ==
    LET i == SkipSpace(str, 1)
        signed == i <= Len(str) /\ str[i] \in {43, 45}
        j == IF signed THEN i + 1 ELSE i
        e == DigitsEnd(str, j)
        negative == signed /\ str[i] = 45
        r == Accumulate(SubSeq(str, j, e - 1), 0,
                        IF negative THEN INT_MIN ELSE 0 - INT_MAX)
    IN  IF e = j THEN Thrown("invalid_argument")
        ELSE IF ~r.ok THEN r
        ELSE [ok |-> TRUE, value |-> IF negative THEN r.value ELSE 0 - r.value]

\* TcpTransport::TcpTransport: host_ and port_, or the error it throws.
TcpTransport(endpoint) ==
    LET colon == rfind(endpoint, 58)
        port_int == stoi(SubSeq(endpoint, colon + 1, Len(endpoint)))
    IN  IF colon = 0 THEN Thrown("Configuration")
        ELSE IF ~port_int.ok THEN Thrown("Configuration")
        ELSE IF port_int.value <= 0 \/ port_int.value > 65535 THEN Thrown("Configuration")
        ELSE [ok |-> TRUE, host_ |-> SubSeq(endpoint, 1, colon - 1),
              port_ |-> port_int.value]

\* The client before TellConfigBuilder::build() is called with these inputs.
Unbuilt(api_key, endpoint) ==
    [pc |-> "build", api_key |-> api_key, endpoint |-> endpoint,
     api_key_bytes |-> << >>, host_ |-> << >>, port_ |-> 0,
     thread_ |-> FALSE, thrown |-> "none"]

\* The client after a construction that did not throw.
Constructed(api_key, endpoint) ==
    [Unbuilt(api_key, endpoint) EXCEPT
        !.pc = "done",
        !.api_key_bytes = validate_and_decode_api_key(api_key).bytes,
        !.host_ = TcpTransport(endpoint).host_,
        !.port_ = TcpTransport(endpoint).port_,
        !.thread_ = TRUE]

\* "00000000000000000000000000000000"
ZeroKey == [i \in 1..ApiKeyLen |-> 48]

\* "h:1"
TestEndpoint == << 104, 58, 49 >>

\* Bytes around the edges of the three hex ranges, and a blank.
KeyChars == {47, 48, 57, 58, 64, 65, 70, 71, 96, 97, 102, 103, 32}

\* The keys tried: every such byte at the first, second and last position of
\* a key of the right length, and keys that are too short or too long.
ApiKeys ==
    {[ZeroKey EXCEPT ![i] = c] : i \in {1, 2, ApiKeyLen}, c \in KeyChars}
        \cup {<< >>, SubSeq(ZeroKey, 1, ApiKeyLen - 1), ZeroKey \o << 48 >>}

\* '0', '1', 'x', ' ', '+', '-'
PortChars == {48, 49, 120, 32, 43, 45}

RECURSIVE StringsUpTo(_, _)
StringsUpTo(chars, n) ==
    IF n = 0 THEN {<< >>}
    ELSE LET shorter == StringsUpTo(chars, n - 1)
         IN  shorter \cup {t \o << c >> : t \in shorter, c \in chars}

\* "65535", "65536", "2147483647", "2147483648"
EdgePorts ==
    { << 54, 53, 53, 51, 53 >>, << 54, 53, 53, 51, 54 >>,
      << 50, 49, 52, 55, 52, 56, 51, 54, 52, 55 >>,
      << 50, 49, 52, 55, 52, 56, 51, 54, 52, 56 >> }

\* "", "h", "h:1"
Hosts == { << >>, << 104 >>, << 104, 58, 49 >> }

\* The endpoints tried: with and without a ':'.
Endpoints ==
    {h \o << 58 >> \o t : h \in Hosts, t \in StringsUpTo(PortChars, MaxPortLen) \cup EdgePorts}
        \cup {<< >>, << 104 >>, << 49 >>}

\* TellConfigBuilder::build(): decodes the api_key or throws.
Build ==
    /\ ctor.pc = "build"
    /\ LET r == validate_and_decode_api_key(ctor.api_key) IN
       ctor' = IF r.ok THEN [ctor EXCEPT !.pc = "transport", !.api_key_bytes = r.bytes]
               ELSE [ctor EXCEPT !.pc = "failed", !.thrown = r.kind]
    /\ UNCHANGED << queue_, mutex_, wake, deadline, max_retries, errors, promise,
                    evicted, dpc, joins, tx, enc >>
    /\ UNCHANGED workerVars
    /\ UNCHANGED << pc, callno, waiting, last_return, enqueued, accepted, close_called,
                    super_props_map, super_props_mutex, session_mutex, session_id,
                    uuids, local, mutlog, placed, device_id >>

\* Tell::Tell, Worker::Worker up to the initialisation of transport_: parses
\* the endpoint or throws.
NewTransport ==
    /\ ctor.pc = "transport"
    /\ LET r == TcpTransport(ctor.endpoint) IN
       ctor' = IF r.ok THEN [ctor EXCEPT !.pc = "thread", !.host_ = r.host_,
                                          !.port_ = r.port_]
               ELSE [ctor EXCEPT !.pc = "failed", !.thrown = r.kind]
    /\ UNCHANGED << queue_, mutex_, wake, deadline, max_retries, errors, promise,
                    evicted, dpc, joins, tx, enc >>
    /\ UNCHANGED workerVars
    /\ UNCHANGED << pc, callno, waiting, last_return, enqueued, accepted, close_called,
                    super_props_map, super_props_mutex, session_mutex, session_id,
                    uuids, local, mutlog, placed, device_id >>

\* Worker::Worker: thread_ = std::thread(&Worker::run, this).
StartThread ==
    /\ ctor.pc = "thread"
    /\ ctor' = [ctor EXCEPT !.pc = "done", !.thread_ = TRUE]
    /\ UNCHANGED << queue_, mutex_, wake, deadline, max_retries, errors, promise,
                    evicted, dpc, joins, tx, enc >>
    /\ UNCHANGED workerVars
    /\ UNCHANGED << pc, callno, waiting, last_return, enqueued, accepted, close_called,
                    super_props_map, super_props_mutex, session_mutex, session_id,
                    uuids, local, mutlog, placed, device_id >>

(* --------------------------------------------------------------- helpers *)

Range(s) == {s[i] : i \in 1..Len(s)}

IsRecord(m) == m.t \in {"event", "log"}

IsSignal(m) == m.t \in {"flush", "close"}

Handle(m) == << m.p, m.n >>

\* The four bytes of the big-endian length prefix of a frame.
\* A frame header with the low byte first.
Header_LittleEndian(len) ==
    << len % 256, (len \div 256) % 256, (len \div 65536) % 256,
       (len \div 16777216) % 256 >>

Header(len) ==
    << (len \div 16777216) % 256, (len \div 65536) % 256, (len \div 256) % 256,
       len % 256 >>

\* A TcpTransport after its constructor: no socket, no send in progress.
\* conns counts the connections made; wire[c] is what the peer of connection
\* c has received; returned lists the send_frame calls that have returned;
\* open holds the connections whose socket has not been given to ::close;
\* closes counts the close_connection calls of the owner.
NewTcpTransport ==
    [socket_fd_ |-> -1, pc |-> "idle", data |-> << >>, sent |-> 0,
     conns |-> 0, wire |-> << >>, returned |-> << >>, calls |-> 0, failures |-> 0,
     open |-> {}, closes |-> 0]

\* The state of everything but the construction once a client has been made.
InitClient ==
    /\ queue_ = << >>
    /\ mutex_ = "free"
    /\ wake = FALSE
    /\ deadline = FALSE
    /\ wpc = "top"
    /\ ret = "none"
    /\ local_queue = << >>
    /\ should_flush = FALSE
    /\ should_close = FALSE
    /\ completions = << >>
    /\ event_queue_ = << >>
    /\ log_queue_ = << >>
    /\ batch_counter_ = FirstBatchId
    /\ running_ = TRUE
    /\ inflight = NoFrame
    /\ socket_fd_ = -1
    /\ max_retries \in {0, MaxRetries}
    /\ retry_threads_ = << >>
    /\ nfail = 0
    /\ frames = << >>
    /\ errors = << >>
    /\ promise = << >>
    /\ round_sigs = {}
    /\ pc = [p \in Producers |-> "idle"]
    /\ callno = [p \in Producers |-> 0]
    /\ waiting = [p \in Producers |-> NoMsg]
    /\ last_return = [p \in Producers |-> "none"]
    /\ enqueued = {}
    /\ accepted = {}
    /\ evicted = {}
    /\ close_called = FALSE
    /\ super_props_map = << >>
    /\ super_props_mutex = Unlocked
    /\ session_mutex = Unlocked
    /\ session_id = << 1, 1 >>
    /\ uuids = 1
    /\ local = [p \in Producers |-> NoLocal]
    /\ mutlog = << >>
    /\ placed = {}
    /\ device_id = 0
    /\ dpc = "none"
    /\ joins = [worker |-> 0, retry |-> 0]
    /\ tx = NewTcpTransport

\* No encoder has been called.
NoEncoding == [pc |-> "none"]

\* The state after a construction from a valid configuration.
Init == InitClient /\ ctor = Constructed(ZeroKey, TestEndpoint) /\ enc = NoEncoding

(* ------------------------------------------------------------ validation *)

\* A std::string argument is modelled by its size(); a double by whether it
\* is a NaN and, if not, its value.
Num(v) == [nan |-> FALSE, v |-> v]

NaN == [nan |-> TRUE, v |-> 0]

\* IEEE-754 `amount <= 0.0`: every comparison with a NaN is false.
LeqZero(a) == ~a.nan /\ a.v <= 0

check_user_id(user_id) == user_id # 0

check_event_name(name) == name # 0 /\ name <= MaxEventName

check_log_message(message) == message # 0 /\ message <= MaxLogMessage

check_service_name(service) == service <= MaxServiceName

\* The checks each facade operation makes before it builds a record, in the
\* order of the code: the field of the first failed check, or "ok".
FacadeCheck(c) ==
    CASE c.op = "track" ->
            IF ~check_user_id(c.user_id) THEN "userId"
            ELSE IF ~check_event_name(c.event_name) THEN "eventName"
            ELSE "ok"
      [] c.op = "identify" ->
            IF ~check_user_id(c.user_id) THEN "userId" ELSE "ok"
      [] c.op = "group" ->
            IF ~check_user_id(c.user_id) THEN "userId"
            ELSE IF c.group_id = 0 THEN "groupId"
            ELSE "ok"
      [] c.op = "revenue" ->
            IF ~check_user_id(c.user_id) THEN "userId"
            ELSE IF LeqZero(c.amount) THEN "amount"
            ELSE IF c.currency = 0 THEN "currency"
            ELSE IF c.order_id = 0 THEN "orderId"
            ELSE "ok"
      [] c.op = "alias" ->
            IF c.previous_id = 0 THEN "previousId"
            ELSE IF ~check_user_id(c.user_id) THEN "userId"
            ELSE "ok"
      [] c.op = "log" ->
            IF ~check_log_message(c.message) THEN "message"
            ELSE IF ~check_service_name(c.service) THEN "service"
            ELSE "ok"
      [] OTHER -> "ok"

\* QueuedEvent::event_type as the operation sets it (revenue is a Track).
EventTypeOf(c) ==
    CASE c.op \in {"track", "revenue"} -> "Track"
      [] c.op = "identify" -> "Identify"
      [] c.op = "group" -> "Group"
      [] c.op = "alias" -> "Alias"
      [] OTHER -> "none"

\* QueuedEvent::event_name: the caller's name for track ("arg"), the fixed
\* name for revenue, empty otherwise.
EventNameOf(c) ==
    CASE c.op = "track" -> "arg"
      [] c.op = "revenue" -> "Order Completed"
      [] OTHER -> ""

\* The kind of channel message an operation enqueues.
MsgType(c) ==
    CASE c.op = "log" -> "log"
      [] c.op = "flush" -> "flush"
      [] c.op = "close" -> "close"
      [] OTHER -> "event"

(* --------------------------------------------------------------- payloads *)

\* Text is modelled byte by byte: a std::string or std::vector<uint8_t> is the
\* sequence of its byte values (34 is '"', 44 ',', 58 ':', 92 '\', 123 '{',
\* 125 '}').

\* needs_escape: the bytes that append_escaped / write_escaped escape.
needs_escape(c) == c = 34 \/ c = 92 \/ c < 32

\* One digit of snprintf "%04x".
HexDigit(d) == IF d < 10 THEN 48 + d ELSE 87 + d

\* append_escaped / Props::write_escaped: the bytes written for byte c.
EscapeChar(c) ==
    IF ~needs_escape(c) THEN << c >>
    ELSE CASE c = 34 -> << 92, 34 >>
           [] c = 92 -> << 92, 92 >>
           [] c = 8 -> << 92, 98 >>
           [] c = 12 -> << 92, 102 >>
           [] c = 10 -> << 92, 110 >>
           [] c = 13 -> << 92, 114 >>
           [] c = 9 -> << 92, 116 >>
           [] OTHER -> << 92, 117, 48, 48, HexDigit(c \div 16), HexDigit(c % 16) >>

RECURSIVE append_escaped(_, _)
\* append_escaped(buf, s) / Props::write_escaped: buf with s appended, escaped.
append_escaped(buf, s) ==
    IF s = << >> THEN buf
    ELSE append_escaped(buf \o EscapeChar(Head(s)), Tail(s))

RECURSIVE Decimal(_)
\* snprintf "%d" of a non-negative int.
Decimal(n) == IF n < 10 THEN << 48 + n >> ELSE Append(Decimal(n \div 10), 48 + (n % 10))

\* Props(): an empty builder.
EmptyProps == [buf_ |-> << >>, count_ |-> 0]

\* Props::begin_field.
begin_field(props, key) ==
    [buf_ |-> append_escaped((IF props.count_ > 0 THEN Append(props.buf_, 44)
                                                  ELSE props.buf_) \o << 34 >>, key)
              \o << 34, 58 >>,
     count_ |-> props.count_ + 1]

\* Props::add(key, const std::string& value).
AddString(props, key, value) ==
    [begin_field(props, key) EXCEPT !.buf_ = Append(append_escaped(Append(@, 34), value), 34)]

\* Props::add(key, int value).
AddInt(props, key, value) ==
    [begin_field(props, key) EXCEPT !.buf_ = @ \o Decimal(value)]

\* Props::to_json_bytes.
to_json_bytes(props) == << 123 >> \o props.buf_ \o << 125 >>

\* A pointer argument of merge_json_payload.
NullPtr == [null |-> TRUE, v |-> << >>]

PtrTo(v) == [null |-> FALSE, v |-> v]

\* std::map<std::string, std::vector<uint8_t>>: operator[] assignment and erase.
Upsert(map, key, value) ==
    [k \in DOMAIN map \cup {key} |-> IF k = key THEN value ELSE map[k]]

Erase(map, key) == [k \in DOMAIN map \ {key} |-> map[k]]

RECURSIVE ReadKey(_, _, _)
\* parse_props_into_map: the key loop, unescaping. raw[i] is the byte at the
\* code's index i - 1. The result is the key and the index of the closing quote.
ReadKey(raw, i, key) ==
    IF i <= Len(raw) /\ raw[i] # 34
    THEN IF raw[i] = 92 /\ i + 1 <= Len(raw)
         THEN LET esc == raw[i + 1] IN
              ReadKey(raw, i + 2,
                      key \o (CASE esc = 34 -> << 34 >>
                                [] esc = 92 -> << 92 >>
                                [] esc = 47 -> << 47 >>
                                [] esc = 98 -> << 8 >>
                                [] esc = 102 -> << 12 >>
                                [] esc = 110 -> << 10 >>
                                [] esc = 114 -> << 13 >>
                                [] esc = 116 -> << 9 >>
                                [] OTHER -> << 92, esc >>))
         ELSE ReadKey(raw, i + 1, Append(key, raw[i]))
    ELSE [key |-> key, i |-> i]

RECURSIVE SkipString(_, _)
\* parse_props_into_map: the scan of a string value, after its opening quote.
SkipString(raw, i) ==
    IF i <= Len(raw)
    THEN IF raw[i] = 92 /\ i + 1 <= Len(raw) THEN SkipString(raw, i + 2)
         ELSE IF raw[i] = 34 THEN i + 1
         ELSE SkipString(raw, i + 1)
    ELSE i

RECURSIVE SkipBare(_, _)
\* parse_props_into_map: the scan of any other value, up to the next comma.
SkipBare(raw, i) == IF i <= Len(raw) /\ raw[i] # 44 THEN SkipBare(raw, i + 1) ELSE i

\* parse_props_into_map: one iteration of the outer loop from index i: the
\* key and value it upserts and the index the next iteration starts at.
ParseEntry(raw, i) ==
    LET k == ReadKey(raw, i + 1, << >>)
        i1 == IF k.i <= Len(raw) THEN k.i + 1 ELSE k.i
        value_start == IF i1 <= Len(raw) /\ raw[i1] = 58 THEN i1 + 1 ELSE i1
        value_end == IF value_start <= Len(raw) /\ raw[value_start] = 34
                     THEN SkipString(raw, value_start + 1)
                     ELSE SkipBare(raw, value_start)
    IN  [key |-> k.key,
         value |-> SubSeq(raw, value_start, value_end - 1),
         next |-> IF value_end <= Len(raw) /\ raw[value_end] = 44
                  THEN value_end + 1 ELSE value_end]

\* parse_props_into_map: the test of the outer loop.
ParseMore(raw, i) == i <= Len(raw) /\ raw[i] = 34

RECURSIVE ParseFrom(_, _, _)
ParseFrom(raw, i, map) ==
    IF ParseMore(raw, i)
    THEN ParseFrom(raw, ParseEntry(raw, i).next,
                   Upsert(map, ParseEntry(raw, i).key, ParseEntry(raw, i).value))
    ELSE map

\* parse_props_into_map(raw, map): the map afterwards.
parse_props_into_map(raw, map) == ParseFrom(raw, 1, map)

RECURSIVE StrLess(_, _)
\* std::less<std::string>: the order in which std::map iterates.
StrLess(a, b) ==
    IF b = << >> THEN FALSE
    ELSE IF a = << >> THEN TRUE
    ELSE IF Head(a) # Head(b) THEN Head(a) < Head(b)
    ELSE StrLess(Tail(a), Tail(b))

RECURSIVE SuperPropsFrom(_, _, _)
\* read_super_props: the loop over the entries keys of map, in map order.
SuperPropsFrom(map, keys, result) ==
    IF keys = {} THEN result
    ELSE LET key == CHOOSE k \in keys : \A o \in keys \ {k} : StrLess(k, o) IN
         SuperPropsFrom(map, keys \ {key},
                        append_escaped((IF result = << >> THEN result
                                                          ELSE Append(result, 44))
                                       \o << 34 >>, key)
                        \o << 34, 58 >> \o map[key])

\* Tell::Inner::read_super_props, the bytes returned.
read_super_props(map) == SuperPropsFrom(map, DOMAIN map, << >>)

\* merge_json_payload with the event's properties placed before the super
\* properties.
merge_json_payload_PropsFirst(key_colon, value, props_json, super_props_raw) ==
    LET has_inner == /\ ~props_json.null
                     /\ Len(props_json.v) > 2
                     /\ props_json.v[1] = 123
        head == Append(append_escaped(<< 123 >> \o key_colon \o << 34 >>, value), 34)
        with_props == IF has_inner
                      THEN Append(head, 44)
                           \o SubSeq(props_json.v, 2, Len(props_json.v) - 1)
                      ELSE head
    IN  IF ~super_props_raw.null /\ super_props_raw.v # << >>
        THEN Append(Append(with_props, 44) \o super_props_raw.v, 125)
        ELSE Append(with_props, 125)

\* merge_json_payload.
merge_json_payload(key_colon, value, props_json, super_props_raw) ==
    LET has_inner == /\ ~props_json.null
                     /\ Len(props_json.v) > 2
                     /\ props_json.v[1] = 123
        head == Append(append_escaped(<< 123 >> \o key_colon \o << 34 >>, value), 34)
        with_super == IF ~super_props_raw.null /\ super_props_raw.v # << >>
                      THEN Append(head, 44) \o super_props_raw.v
                      ELSE head
    IN  IF has_inner
        THEN Append(with_super, 44) \o SubSeq(props_json.v, 2, Len(props_json.v))
        ELSE Append(with_super, 125)

\* The tail of the payload that group and revenue build inline.
InlineTail(buf, props_json, sp_raw) ==
    LET with_super == IF sp_raw # << >> THEN Append(buf, 44) \o sp_raw ELSE buf IN
    IF props_json # << >> /\ Len(props_json) > 2 /\ props_json[1] = 123
    THEN Append(with_super, 44) \o Tail(props_json)
    ELSE Append(with_super, 125)

\* `properties.empty() ? {} : properties.to_json_bytes()`.
PropsJson(properties) ==
    IF properties.count_ = 0 THEN << >> ELSE to_json_bytes(properties)

\* Tell::track: the payload built from the arguments and the snapshot sp_raw.
TrackPayload(user_id, properties, sp_raw) ==
    merge_json_payload(<< 34, 117, 115, 101, 114, 95, 105, 100, 34, 58 >>, user_id,
                       IF PropsJson(properties) = << >> THEN NullPtr
                       ELSE PtrTo(PropsJson(properties)),
                       IF sp_raw = << >> THEN NullPtr ELSE PtrTo(sp_raw))

\* Tell::group: the payload.
GroupPayload(user_id, group_id, properties, sp_raw) ==
    InlineTail(Append(append_escaped(
                   Append(append_escaped(<< 123 >> \o << 34, 103, 114, 111, 117, 112, 95, 105, 100, 34, 58, 34 >>, group_id), 34)
                   \o << 44, 34, 117, 115, 101, 114, 95, 105, 100, 34, 58, 34 >>, user_id), 34),
               PropsJson(properties), sp_raw)

\* Tell::revenue: the payload; amount_str is the text snprintf "%g" produced.
RevenuePayload(user_id, amount_str, currency, order_id, properties, sp_raw) ==
    InlineTail(Append(append_escaped(
                   Append(append_escaped(
                       Append(append_escaped(<< 123 >> \o << 34, 117, 115, 101, 114, 95, 105, 100, 34, 58, 34 >>, user_id), 34)
                       \o << 44, 34, 97, 109, 111, 117, 110, 116, 34, 58 >> \o amount_str \o << 44, 34, 99, 117, 114, 114, 101, 110, 99, 121, 34, 58, 34 >>, currency), 34)
                   \o << 44, 34, 111, 114, 100, 101, 114, 95, 105, 100, 34, 58, 34 >>, order_id), 34),
               PropsJson(properties), sp_raw)

(* --------------------------------------------------------------- channel *)

\* Enqueue with `>` for `>=` in the capacity test.
Enqueue_OffByOne(q, m) ==
    IF Len(q) > MAX_QUEUE_SIZE THEN Append(Tail(q), m) ELSE Append(q, m)

\* Enqueue that pushes at the head of the channel.
Enqueue_AtHead(q, m) ==
    IF Len(q) >= MAX_QUEUE_SIZE THEN << m >> \o Tail(q) ELSE << m >> \o q

\* Worker::enqueue, the queue after the push (drop oldest when full).
Enqueue(q, m) ==
    IF Len(q) >= MAX_QUEUE_SIZE THEN Append(Tail(q), m) ELSE Append(q, m)

\* Worker::enqueue, the messages the push destroys.
Dropped(q) == IF Len(q) >= MAX_QUEUE_SIZE THEN {Head(q)} ELSE {}

\* A promise destroyed before set_value makes its future ready (broken_promise).
Abandon(pr, ms) ==
    [h \in DOMAIN pr |->
        IF h \in {Handle(m) : m \in {x \in ms : IsSignal(x)}} /\ pr[h].st = "pending"
        THEN [pr[h] EXCEPT !.st = "broken"] ELSE pr[h]]

Ready(h) == promise[h].st # "pending"

TotalCalls == callno["p1"] + callno["p2"]

(* ---------------------------------------------------------------- facade *)

\* A report handed over to the worker thread.
ReportValidation_OnWorker(p, field) ==
    errors' = Append(errors, [kind |-> "Validation", what |-> field,
                              thread |-> "worker", batch |-> 0])

\* Tell::Inner::report_error on the calling thread.
ReportValidation(p, field) ==
    errors' = Append(errors, [kind |-> "Validation", what |-> field, thread |-> p,
                              batch |-> 0])

\* An enqueue that looks at the channel after its push.
WasEmpty_AfterPush(q) == Append(q, 0) = << >>

\* Worker::enqueue: `was_empty = queue_.empty()`, read under the mutex
\* before the push.
WasEmpty(q) == q = << >>

\* Worker::enqueue: `if (was_empty) cv_.notify_one()`. w is the notification
\* pending for the worker; notify_one reaches the worker only if it is
\* blocked in wait_until.
NotifyOne(w, was_empty, sleeping) == w \/ (was_empty /\ sleeping)

\* The message that call c of producer p puts on the channel.
Msg(p, c) ==
    [t |-> MsgType(c), p |-> p, n |-> callno[p] + 1,
     event_type |-> EventTypeOf(c), name |-> EventNameOf(c)]

\* Where the caller is once enqueue has returned: flush and close go on to
\* wait for their future.
AfterCall(m) == IF IsSignal(m) THEN "wait" ELSE "idle"

\* One facade call by producer p, track, identify, group, revenue, alias, log,
\* flush or close: the checks and the push under the channel mutex.
\* `notified` is the pending notification and `after` the position of the
\* caller when the step is over.
CallSteps(p, c, notified, after) ==
    /\ pc[p] = "idle"
    /\ TotalCalls < MaxCalls
    /\ callno' = [callno EXCEPT ![p] = @ + 1]
    /\ last_return' = [last_return EXCEPT ![p] = "none"]
    /\ LET m == Msg(p, c) IN
       IF FacadeCheck(c) # "ok"
       THEN /\ ReportValidation(p, FacadeCheck(c))
            /\ UNCHANGED << queue_, mutex_, wake, promise, evicted, pc, waiting,
                            enqueued, accepted, close_called >>
       ELSE /\ mutex_ = "free"
            /\ queue_' = Enqueue(queue_, m)
            /\ evicted' = evicted \cup Dropped(queue_)
            /\ wake' = notified
            /\ promise' = Abandon(IF IsSignal(m)
                                  THEN (Handle(m) :> [st |-> "pending", sets |-> 0]) @@ promise
                                  ELSE promise,
                                  Dropped(queue_))
            /\ pc' = [pc EXCEPT ![p] = after]
            /\ waiting' = [waiting EXCEPT ![p] = IF IsSignal(m) THEN m ELSE NoMsg]
            /\ enqueued' = enqueued \cup {m}
            /\ accepted' = IF IsRecord(m) /\ ~close_called
                           THEN accepted \cup {m} ELSE accepted
            /\ close_called' = (close_called \/ m.t = "close")
            /\ UNCHANGED << mutex_, errors >>
    /\ UNCHANGED << deadline, max_retries >>
    /\ UNCHANGED workerVars
    /\ UNCHANGED sharedVars

\* One facade call by producer p as one step, up to the point where
\* flush/close start to wait: the push and then the notification. Between
\* the two the caller holds no lock and touches nothing but cv_.
Call(p, c) ==
    CallSteps(p, c, NotifyOne(wake, WasEmpty(queue_), wpc = "sleeping"),
              AfterCall(Msg(p, c)))

\* Worker::enqueue up to the end of the lock_guard scope: the call has
\* pushed and unlocked, and has yet to notify if the channel was empty.
E_Push(p, c) ==
    CallSteps(p, c, wake, IF WasEmpty(queue_) THEN "notify" ELSE AfterCall(Msg(p, c)))

\* Worker::enqueue, `cv_.notify_one()` after the mutex was released.
E_Notify(p) ==
    /\ pc[p] = "notify"
    /\ wake' = NotifyOne(wake, TRUE, wpc = "sleeping")
    /\ pc' = [pc EXCEPT ![p] = IF waiting[p] = NoMsg THEN "idle" ELSE "wait"]
    /\ UNCHANGED << queue_, mutex_, deadline, max_retries, errors, promise,
                    callno, last_return, waiting, enqueued, accepted, evicted,
                    close_called >>
    /\ UNCHANGED workerVars
    /\ UNCHANGED sharedVars

\* future::wait_for returns because the handle became ready.
ReturnReady(p) ==
    /\ pc[p] = "wait"
    /\ Ready(Handle(waiting[p]))
    /\ pc' = [pc EXCEPT ![p] = "idle"]
    /\ last_return' = [last_return EXCEPT ![p] = "ready"]
    /\ waiting' = [waiting EXCEPT ![p] = NoMsg]
    /\ UNCHANGED << queue_, mutex_, wake, deadline, max_retries, errors, promise,
                    callno, enqueued, accepted, evicted, close_called >>
    /\ UNCHANGED workerVars
    /\ UNCHANGED sharedVars

\* future::wait() in place of wait_for: no timeout.
CanTimeOut_Never(h) == FALSE

\* future::wait_for(close_timeout): the wait on handle h can end by timeout
\* as long as h is not ready.
CanTimeOut(h) == ~Ready(h)

\* future::wait_for returns because close_timeout has elapsed.
ReturnTimeout(p) ==
    /\ pc[p] = "wait"
    /\ CanTimeOut(Handle(waiting[p]))
    /\ pc' = [pc EXCEPT ![p] = "idle"]
    /\ last_return' = [last_return EXCEPT ![p] = "timeout"]
    /\ waiting' = [waiting EXCEPT ![p] = NoMsg]
    /\ UNCHANGED << queue_, mutex_, wake, deadline, max_retries, errors, promise,
                    callno, enqueued, accepted, evicted, close_called >>
    /\ UNCHANGED workerVars
    /\ UNCHANGED sharedVars

(* ------------------------------------- facade: super properties, session *)

\* The variables the steps below leave alone, besides the worker's.
channelVars == << queue_, mutex_, wake, deadline, max_retries, promise, waiting,
                  enqueued, accepted, evicted, close_called, lifeVars >>

\* A shared lock that does not wait for the exclusive holder.
CanLockShared_Always(mu) == TRUE

\* std::shared_lock can be taken: no thread holds the mutex exclusively.
CanLockShared(mu) == mu.w = "none"

\* An exclusive lock that does not wait for the shared holders.
CanLockExclusive_IgnoreReaders(mu) == mu.w = "none"

\* std::unique_lock can be taken: no thread holds the mutex at all.
CanLockExclusive(mu) == mu.w = "none" /\ mu.r = {}

\* snprintf "%g" of a double, for the values the model uses (NaN and
\* non-negative integers below 10^6).
FormatG(a) == IF a.nan THEN << 110, 97, 110 >> ELSE Decimal(a.v)

\* The sizes of a call's string arguments, which is all the checks look at.
ArgSizes(c) ==
    CASE c.op = "track" ->
            [op |-> "track", user_id |-> Len(c.user_id), event_name |-> Len(c.event_name)]
      [] c.op = "group" ->
            [op |-> "group", user_id |-> Len(c.user_id), group_id |-> Len(c.group_id)]
      [] c.op = "revenue" ->
            [op |-> "revenue", user_id |-> Len(c.user_id), amount |-> c.amount,
             currency |-> Len(c.currency), order_id |-> Len(c.order_id)]
      [] OTHER -> [op |-> c.op]

\* The payload an ingest call builds from its arguments and its snapshot of
\* the super properties.
Payload(c, sp_raw) ==
    CASE c.op = "track" -> TrackPayload(c.user_id, c.properties, sp_raw)
      [] c.op = "group" -> GroupPayload(c.user_id, c.group_id, c.properties, sp_raw)
      [] c.op = "revenue" ->
            RevenuePayload(c.user_id, FormatG(c.amount), c.currency, c.order_id,
                           c.properties, sp_raw)

\* Tell::track / group / revenue, entry: the argument checks.
IngestBegin(p, c) ==
    /\ pc[p] = "idle"
    /\ TotalCalls < MaxFacadeCalls
    /\ callno' = [callno EXCEPT ![p] = @ + 1]
    /\ IF FacadeCheck(ArgSizes(c)) # "ok"
       THEN /\ ReportValidation(p, FacadeCheck(ArgSizes(c)))
            /\ UNCHANGED << pc, local >>
       ELSE /\ pc' = [pc EXCEPT ![p] = "read_super_props"]
            /\ local' = [local EXCEPT ![p] = [NoLocal EXCEPT !.c = c]]
            /\ UNCHANGED errors
    /\ UNCHANGED << channelVars, last_return, super_props_map, super_props_mutex,
                    session_mutex, session_id, uuids, mutlog, placed, device_id >>
    /\ UNCHANGED workerVars

\* Tell::Inner::read_super_props under its shared lock, and the payload built
\* from the snapshot.
ReadSuperProps(p) ==
    /\ pc[p] = "read_super_props"
    /\ CanLockShared(super_props_mutex)
    /\ local' = [local EXCEPT ![p] =
                    [@ EXCEPT !.sp_raw = read_super_props(super_props_map),
                              !.payload = Payload(local[p].c,
                                                   read_super_props(super_props_map)),
                              !.seen = Len(mutlog)]]
    /\ pc' = [pc EXCEPT ![p] = "read_session_id"]
    /\ UNCHANGED << channelVars, errors, callno, last_return, super_props_map,
                    super_props_mutex, session_mutex, session_id, uuids, mutlog, placed, device_id >>
    /\ UNCHANGED workerVars

\* Tell::Inner::read_session_id: the shared lock and the first half of the copy.
ReadSessionId(p) ==
    /\ pc[p] = "read_session_id"
    /\ CanLockShared(session_mutex)
    /\ session_mutex' = [session_mutex EXCEPT !.r = @ \cup {p}]
    /\ local' = [local EXCEPT ![p].session_id[1] = session_id[1]]
    /\ pc' = [pc EXCEPT ![p] = "copy_session_id"]
    /\ UNCHANGED << channelVars, errors, callno, last_return, super_props_map,
                    super_props_mutex, session_id, uuids, mutlog, placed, device_id >>
    /\ UNCHANGED workerVars

\* Tell::Inner::read_session_id: the second half of the copy and the unlock.
CopySessionId(p) ==
    /\ pc[p] = "copy_session_id"
    /\ session_mutex' = [session_mutex EXCEPT !.r = @ \ {p}]
    /\ local' = [local EXCEPT ![p].session_id[2] = session_id[2]]
    /\ pc' = [pc EXCEPT ![p] = "send_event"]
    /\ UNCHANGED << channelVars, errors, callno, last_return, super_props_map,
                    super_props_mutex, session_id, uuids, mutlog, placed, device_id >>
    /\ UNCHANGED workerVars

\* Worker::send_event: the event is pushed into the channel and the call returns.
SendEvent(p) ==
    /\ pc[p] = "send_event"
    /\ mutex_ = "free"
    /\ LET m == [t |-> "event", p |-> p, n |-> callno[p],
                 event_type |-> EventTypeOf(local[p].c),
                 name |-> EventNameOf(local[p].c),
                 payload |-> local[p].payload,
                 device_id |-> device_id,
                 session_id |-> local[p].session_id] IN
       /\ queue_' = Enqueue(queue_, m)
       /\ evicted' = evicted \cup Dropped(queue_)
       /\ wake' = NotifyOne(wake, WasEmpty(queue_), wpc = "sleeping")
       /\ promise' = Abandon(promise, Dropped(queue_))
       /\ enqueued' = enqueued \cup {m}
       /\ accepted' = IF ~close_called THEN accepted \cup {m} ELSE accepted
       /\ placed' = placed \cup {[m |-> m, c |-> local[p].c, sp_raw |-> local[p].sp_raw,
                                  seen |-> local[p].seen, returned |-> Len(mutlog)]}
    /\ pc' = [pc EXCEPT ![p] = "idle"]
    /\ local' = [local EXCEPT ![p] = NoLocal]
    /\ UNCHANGED << mutex_, deadline, max_retries, waiting, close_called, errors,
                    callno, last_return, super_props_map, super_props_mutex,
                    session_mutex, session_id, uuids, mutlog, device_id, lifeVars >>
    /\ UNCHANGED workerVars

\* Tell::register_props, entry: it returns at once when given no properties,
\* and otherwise takes the exclusive lock on the super properties.
RegisterProps(p, c) ==
    /\ pc[p] = "idle"
    /\ TotalCalls < MaxFacadeCalls
    /\ callno' = [callno EXCEPT ![p] = @ + 1]
    /\ IF c.properties.count_ = 0
       THEN /\ mutlog' = Append(mutlog, [by |-> p] @@ c)
            /\ UNCHANGED << super_props_mutex, local, pc >>
       ELSE /\ CanLockExclusive(super_props_mutex)
            /\ super_props_mutex' = [super_props_mutex EXCEPT !.w = p]
            /\ local' = [local EXCEPT ![p] = [NoLocal EXCEPT !.c = c, !.i = 1]]
            /\ pc' = [pc EXCEPT ![p] = "parse_props_into_map"]
            /\ UNCHANGED mutlog
    /\ UNCHANGED << channelVars, errors, last_return, super_props_map,
                    session_mutex, session_id, uuids, placed, device_id >>
    /\ UNCHANGED workerVars

\* parse_props_into_map: one iteration of its loop, one entry upserted.
ParseProps(p) ==
    /\ pc[p] = "parse_props_into_map"
    /\ ParseMore(local[p].c.properties.buf_, local[p].i)
    /\ LET e == ParseEntry(local[p].c.properties.buf_, local[p].i) IN
       /\ super_props_map' = Upsert(super_props_map, e.key, e.value)
       /\ local' = [local EXCEPT ![p].i = e.next]
    /\ UNCHANGED << channelVars, errors, pc, callno, last_return, super_props_mutex,
                    session_mutex, session_id, uuids, mutlog, placed, device_id >>
    /\ UNCHANGED workerVars

\* Tell::register_props: the loop has ended, the lock is released, the call returns.
RegisterReturn(p) ==
    /\ pc[p] = "parse_props_into_map"
    /\ ~ParseMore(local[p].c.properties.buf_, local[p].i)
    /\ super_props_mutex' = [super_props_mutex EXCEPT !.w = "none"]
    /\ mutlog' = Append(mutlog, [by |-> p] @@ local[p].c)
    /\ pc' = [pc EXCEPT ![p] = "idle"]
    /\ local' = [local EXCEPT ![p] = NoLocal]
    /\ UNCHANGED << channelVars, errors, callno, last_return, super_props_map,
                    session_mutex, session_id, uuids, placed, device_id >>
    /\ UNCHANGED workerVars

\* Tell::unregister, entry: the exclusive lock on the super properties.
Unregister(p, c) ==
    /\ pc[p] = "idle"
    /\ TotalCalls < MaxFacadeCalls
    /\ CanLockExclusive(super_props_mutex)
    /\ callno' = [callno EXCEPT ![p] = @ + 1]
    /\ super_props_mutex' = [super_props_mutex EXCEPT !.w = p]
    /\ local' = [local EXCEPT ![p] = [NoLocal EXCEPT !.c = c]]
    /\ pc' = [pc EXCEPT ![p] = "erase"]
    /\ UNCHANGED << channelVars, errors, last_return, super_props_map,
                    session_mutex, session_id, uuids, mutlog, placed, device_id >>
    /\ UNCHANGED workerVars

\* Tell::unregister: the erase, the unlock and the return.
UnregisterReturn(p) ==
    /\ pc[p] = "erase"
    /\ super_props_map' = Erase(super_props_map, local[p].c.key)
    /\ super_props_mutex' = [super_props_mutex EXCEPT !.w = "none"]
    /\ mutlog' = Append(mutlog, [by |-> p] @@ local[p].c)
    /\ pc' = [pc EXCEPT ![p] = "idle"]
    /\ local' = [local EXCEPT ![p] = NoLocal]
    /\ UNCHANGED << channelVars, errors, callno, last_return, session_mutex,
                    session_id, uuids, placed, device_id >>
    /\ UNCHANGED workerVars

\* A reset_session that regenerates the device id as well.
ResetSession_NewDevice(p) ==
    /\ pc[p] = "idle"
    /\ TotalCalls < MaxFacadeCalls
    /\ CanLockExclusive(session_mutex)
    /\ callno' = [callno EXCEPT ![p] = @ + 1]
    /\ session_mutex' = [session_mutex EXCEPT !.w = p]
    /\ uuids' = uuids + 1
    /\ local' = [local EXCEPT ![p] = [NoLocal EXCEPT !.c = [op |-> "reset_session"],
                                                     !.uuid = << uuids + 1, uuids + 1 >>]]
    /\ session_id' = [session_id EXCEPT ![1] = uuids + 1]
    /\ device_id' = uuids + 1
    /\ pc' = [pc EXCEPT ![p] = "store_session_id"]
    /\ UNCHANGED << channelVars, errors, last_return, super_props_map,
                    super_props_mutex, mutlog, placed >>
    /\ UNCHANGED workerVars

\* Tell::reset_session: the exclusive lock and generate_uuid, which writes
\* its 16 bytes into session_id in place: here the first memcpy.
ResetSession(p) ==
    /\ pc[p] = "idle"
    /\ TotalCalls < MaxFacadeCalls
    /\ CanLockExclusive(session_mutex)
    /\ callno' = [callno EXCEPT ![p] = @ + 1]
    /\ session_mutex' = [session_mutex EXCEPT !.w = p]
    /\ uuids' = uuids + 1
    /\ local' = [local EXCEPT ![p] = [NoLocal EXCEPT !.c = [op |-> "reset_session"],
                                                     !.uuid = << uuids + 1, uuids + 1 >>]]
    /\ session_id' = [session_id EXCEPT ![1] = uuids + 1]
    /\ pc' = [pc EXCEPT ![p] = "store_session_id"]
    /\ UNCHANGED << channelVars, errors, last_return, super_props_map,
                    super_props_mutex, mutlog, placed, device_id >>
    /\ UNCHANGED workerVars

\* Tell::reset_session: generate_uuid's second memcpy, the unlock, the return.
ResetReturn(p) ==
    /\ pc[p] = "store_session_id"
    /\ session_id' = [session_id EXCEPT ![2] = local[p].uuid[2]]
    /\ session_mutex' = [session_mutex EXCEPT !.w = "none"]
    /\ pc' = [pc EXCEPT ![p] = "idle"]
    /\ local' = [local EXCEPT ![p] = NoLocal]
    /\ UNCHANGED << channelVars, errors, callno, last_return, super_props_map,
                    super_props_mutex, uuids, mutlog, placed, device_id >>
    /\ UNCHANGED workerVars

(* ------------------------------------------------------------- transport *)

\* A close_connection that leaves the socket open.
close_connection_Noop(fd) == fd

\* TcpTransport::close_connection: the socket afterwards.
close_connection(fd) == -1

\* TcpTransport::send_frame under network outcome o: the socket afterwards.
\* "connect_fail": ensure_connected throws; "write_fail": write_all closes the
\* socket; "ok": connected if it was not, header and payload written.
SocketAfter(fd, o) ==
    CASE o = "connect_fail" -> -1
      [] o = "write_fail" -> -1
      [] OTHER -> IF fd >= 0 THEN fd ELSE 3

\* The outcomes send_frame can have on a transport whose socket is fd.
Outcomes(fd) ==
    {"ok"} \cup (IF nfail < MaxFail
                 THEN {"write_fail"} \cup (IF fd < 0 THEN {"connect_fail"} ELSE {})
                 ELSE {})

\* send_frame returns: the call, its result and the connection it used.
FrameReturned(t, ok) ==
    Append(t.returned, [data |-> t.data, ok |-> ok, conn |-> t.socket_fd_])

\* An ensure_connected that connects whether or not a socket is open.
ensure_connected_Always(fd) == TRUE

\* TcpTransport::ensure_connected: whether it goes on to connect().
ensure_connected(fd) == ~(fd >= 0)

\* TcpTransport::close_connection on the transport t: an open socket is
\* given to ::close and forgotten; without one nothing is done.
Closed(t) ==
    IF t.socket_fd_ >= 0
    THEN [t EXCEPT !.open = @ \ {t.socket_fd_},
                   !.socket_fd_ = close_connection(@)]
    ELSE t

\* The rest of the model does not move while the transport is stepped.
TransportFrame ==
    /\ UNCHANGED << queue_, mutex_, wake, deadline, max_retries, errors, promise,
                    evicted, dpc, joins, ctor, enc >>
    /\ UNCHANGED workerVars
    /\ UNCHANGED << pc, callno, waiting, last_return, enqueued, accepted, close_called,
                    super_props_map, super_props_mutex, session_mutex, session_id,
                    uuids, local, mutlog, placed, device_id >>

\* send_frame(data, len) up to the first write: ensure_connected() returns at
\* once on an open socket and connects otherwise; connected tells whether
\* that connect succeeds. A connect that throws makes send_frame return
\* false.
T_SendFrame(data, connected) ==
    /\ tx.pc = "idle"
    /\ tx.calls < MaxSends
    /\ ~ensure_connected(tx.socket_fd_) => connected
    /\ ~connected => tx.failures < MaxTxFail
    /\ LET called == [tx EXCEPT !.data = data, !.sent = 0, !.calls = @ + 1] IN
       tx' = IF ~ensure_connected(tx.socket_fd_)
             THEN [called EXCEPT !.pc = "header"]
             ELSE IF connected
             THEN [called EXCEPT !.pc = "header", !.socket_fd_ = tx.conns + 1,
                                 !.conns = @ + 1, !.wire = Append(@, << >>),
                                 !.open = @ \cup {tx.conns + 1}]
             ELSE [called EXCEPT !.returned = FrameReturned(called, FALSE),
                                 !.failures = @ + 1]
    /\ TransportFrame

\* What write_all is writing: the header, then the payload.
Writing(t) == IF t.pc = "header" THEN Header(Len(t.data)) ELSE t.data

\* write_all: ::send takes n more bytes. When the header is out the payload
\* follows (write_all of no bytes returns true without a send); when the
\* payload is out send_frame returns true.
T_Write(n) ==
    /\ tx.pc \in {"header", "payload"}
    /\ n \in 1..(Len(Writing(tx)) - tx.sent)
    /\ LET fd == tx.socket_fd_
           wrote == [tx EXCEPT !.wire[fd] = @ \o SubSeq(Writing(tx), tx.sent + 1, tx.sent + n),
                               !.sent = @ + n]
           whole == wrote.sent = Len(Writing(tx))
       IN  tx' = IF ~whole THEN wrote
                 ELSE IF tx.pc = "header" /\ tx.data # << >>
                 THEN [wrote EXCEPT !.pc = "payload", !.sent = 0]
                 ELSE [wrote EXCEPT !.pc = "idle", !.returned = FrameReturned(tx, TRUE)]
    /\ TransportFrame

\* write_all: ::send returns n <= 0: close_connection() and send_frame
\* returns false.
T_WriteFail ==
    /\ tx.pc \in {"header", "payload"}
    /\ tx.failures < MaxTxFail
    /\ tx' = [Closed(tx) EXCEPT !.pc = "idle",
                                !.returned = FrameReturned(tx, FALSE),
                                !.failures = @ + 1]
    /\ TransportFrame

\* The owner calls close_connection() between two sends, as Worker::run does
\* when it closes and as the destructor does.
T_Close ==
    /\ tx.pc = "idle"
    /\ tx.closes < MaxCloses
    /\ tx' = [Closed(tx) EXCEPT !.closes = @ + 1]
    /\ TransportFrame

(* -------------------------------------------------------------- encoding *)

\* A std::vector<uint8_t> is the sequence of its bytes; a position p in it
\* (a size_t) is the byte at index p + 1. Scalars stay below 2^31. The
\* memcpy of a uint32_t in patch_u32 and patch_offset is that of a
\* little-endian host.

UUID_LENGTH == 16

API_KEY_LENGTH == 16

DEFAULT_VERSION == 100

Zeros(n) == [i \in 1..n |-> 0]

\* The four bytes of a u32, low byte first.
LittleEndian32(value) ==
    << value % 256, (value \div 256) % 256, (value \div 65536) % 256,
       (value \div 16777216) % 256 >>

write_u16(buf, value) == buf \o << value % 256, (value \div 256) % 256 >>

write_u32(buf, value) == buf \o LittleEndian32(value)

write_i32(buf, value) == write_u32(buf, value)

write_u64(buf, value) == buf \o LittleEndian32(value) \o Zeros(4)

\* A run of write_u16 calls.
write_u16s(buf, values) ==
    buf \o [i \in 1..2 * Len(values) |->
                IF i % 2 = 1 THEN values[(i + 1) \div 2] % 256
                ELSE (values[i \div 2] \div 256) % 256]

align4(buf) == buf \o Zeros((4 - (Len(buf) % 4)) % 4)

\* write_byte_vector: [u32 length][data]; the start position is the size of
\* buf before the call.
write_byte_vector(buf, data, len) ==
    write_u32(buf, len) \o (IF ~data.null /\ len > 0 THEN SubSeq(data.v, 1, len) ELSE << >>)

\* write_string: [u32 length][data][NUL].
write_string(buf, str, len) ==
    write_u32(buf, len) \o (IF ~str.null /\ len > 0 THEN SubSeq(str.v, 1, len) ELSE << >>)
        \o << 0 >>

patch_u32(buf, pos, value) ==
    SubSeq(buf, 1, pos) \o LittleEndian32(value) \o SubSeq(buf, pos + 5, Len(buf))

\* An offset patched in as the absolute position of its target.
patch_offset_Absolute(buf, offset_pos, target) == patch_u32(buf, offset_pos, target)

patch_offset(buf, offset_pos, target) == patch_u32(buf, offset_pos, target - offset_pos)

\* The u32 that the memcpy in the data containers reads back at pos.
read_u32(buf, pos) ==
    buf[pos + 1] + 256 * buf[pos + 2] + 65536 * buf[pos + 3] + 16777216 * buf[pos + 4]

\* `if (has_x) { x_start = write_byte_vector(buf, x, len); align4(buf); }`
write_bytes_if(has, buf, data, len) ==
    IF has THEN align4(write_byte_vector(buf, data, len)) ELSE buf

\* `if (has_x) { x_start = write_string(buf, x, len); align4(buf); }`
write_string_if(has, buf, str, len) ==
    IF has THEN align4(write_string(buf, str, len)) ELSE buf

\* `if (has_x) patch_offset(buf, x_off_pos, x_start);`
patch_offset_if(has, buf, offset_pos, target) ==
    IF has THEN patch_offset(buf, offset_pos, target) ELSE buf

\* The statements of an encoder run one after the other: each position is
\* the size of the buffer when its statement is reached, and is taken before
\* the next write. The result is the one given.
InOrder(positions, result) == IF positions = << >> THEN result ELSE result

encode_event_into(buf, params) ==
    LET has_device_id == ~params.device_id.null
        has_session_id == ~params.session_id.null
        has_service == ~params.service.null
        has_event_name == ~params.event_name.null
        has_payload == ~params.payload.null /\ params.payload_len > 0
        root_pos == Len(buf)
        b0 == buf \o Zeros(4)
        vtable_start == Len(b0)
        b1 == write_u16s(b0, << 18, 36, 28, 20,
                                IF has_service THEN 32 ELSE 0,
                                IF has_device_id THEN 4 ELSE 0,
                                IF has_session_id THEN 8 ELSE 0,
                                IF has_event_name THEN 12 ELSE 0,
                                IF has_payload THEN 16 ELSE 0 >>) \o Zeros(2)
        table_start == Len(b1)
        b2 == write_i32(b1, table_start - vtable_start)
        device_id_off_pos == Len(b2)
        session_id_off_pos == Len(b2) + 4
        event_name_off_pos == Len(b2) + 8
        payload_off_pos == Len(b2) + 12
        b3 == write_u32(write_u32(write_u32(write_u32(b2, 0), 0), 0), 0)
        b4 == write_u64(b3, params.timestamp) \o << params.event_type >> \o Zeros(3)
        service_off_pos == Len(b4)
        b5 == align4(write_u32(b4, 0))
        device_id_start == Len(b5)
        b6 == write_bytes_if(has_device_id, b5, params.device_id, UUID_LENGTH)
        session_id_start == Len(b6)
        b7 == write_bytes_if(has_session_id, b6, params.session_id, UUID_LENGTH)
        service_start == Len(b7)
        b8 == write_string_if(has_service, b7, params.service, params.service_len)
        event_name_start == Len(b8)
        b9 == write_string_if(has_event_name, b8, params.event_name, params.event_name_len)
        payload_start == Len(b9)
        b10 == IF has_payload
               THEN write_byte_vector(b9, params.payload, params.payload_len)
               ELSE b9
        p0 == patch_u32(b10, root_pos, table_start - root_pos)
        p1 == patch_offset_if(has_device_id, p0, device_id_off_pos, device_id_start)
        p2 == patch_offset_if(has_session_id, p1, session_id_off_pos, session_id_start)
        p3 == patch_offset_if(has_service, p2, service_off_pos, service_start)
        p4 == patch_offset_if(has_event_name, p3, event_name_off_pos, event_name_start)
    IN  InOrder(<< vtable_start, table_start, device_id_off_pos, service_off_pos,
                   device_id_start, session_id_start, service_start, event_name_start,
                   payload_start, Len(p0), Len(p1), Len(p2), Len(p3), Len(p4) >>,
                patch_offset_if(has_payload, p4, payload_off_pos, payload_start))

encode_log_entry_into(buf, params) ==
    LET has_session_id == ~params.session_id.null
        has_source == ~params.source.null
        has_service == ~params.service.null
        has_payload == ~params.payload.null /\ params.payload_len > 0
        root_pos == Len(buf)
        b0 == buf \o Zeros(4)
        vtable_start == Len(b0)
        b1 == write_u16s(b0, << 18, 32, 28,
                                IF has_session_id THEN 4 ELSE 0,
                                29, 20,
                                IF has_source THEN 8 ELSE 0,
                                IF has_service THEN 12 ELSE 0,
                                IF has_payload THEN 16 ELSE 0 >>) \o Zeros(2)
        table_start == Len(b1)
        b2 == write_i32(b1, table_start - vtable_start)
        session_id_off_pos == Len(b2)
        source_off_pos == Len(b2) + 4
        service_off_pos == Len(b2) + 8
        payload_off_pos == Len(b2) + 12
        b3 == write_u32(write_u32(write_u32(write_u32(b2, 0), 0), 0), 0)
        b4 == write_u64(b3, params.timestamp) \o << params.event_type, params.level >>
                  \o Zeros(2)
        b5 == align4(b4)
        session_id_start == Len(b5)
        b6 == write_bytes_if(has_session_id, b5, params.session_id, UUID_LENGTH)
        source_start == Len(b6)
        b7 == write_string_if(has_source, b6, params.source, params.source_len)
        service_start == Len(b7)
        b8 == write_string_if(has_service, b7, params.service, params.service_len)
        payload_start == Len(b8)
        b9 == IF has_payload
              THEN write_byte_vector(b8, params.payload, params.payload_len)
              ELSE b8
        p0 == patch_u32(b9, root_pos, table_start - root_pos)
        p1 == patch_offset_if(has_session_id, p0, session_id_off_pos, session_id_start)
        p2 == patch_offset_if(has_source, p1, source_off_pos, source_start)
        p3 == patch_offset_if(has_service, p2, service_off_pos, service_start)
    IN  InOrder(<< vtable_start, table_start, session_id_off_pos, session_id_start,
                   source_start, service_start, payload_start,
                   Len(p0), Len(p1), Len(p2), Len(p3) >>,
                patch_offset_if(has_payload, p3, payload_off_pos, payload_start))

\* encode_event_data_into: `for (const auto& params : events)`: each event
\* is encoded at an aligned position and the position of its table is kept.
RECURSIVE EncodeEvents(_, _, _)
EncodeEvents(buf, events, table_positions) ==
    IF events = << >> THEN [buf |-> buf, table_positions |-> table_positions]
    ELSE LET aligned == align4(buf)
             event_start == Len(aligned)
             Rest(encoded) ==
                 InOrder(<< event_start, Len(encoded) >>,
                         EncodeEvents(encoded, Tail(events),
                                      Append(table_positions,
                                             event_start + read_u32(encoded, event_start))))
         IN  Rest(encode_event_into(aligned, Head(events)))

\* encode_log_data_into: `for (const auto& params : logs)`.
RECURSIVE EncodeLogs(_, _, _)
EncodeLogs(buf, logs, table_positions) ==
    IF logs = << >> THEN [buf |-> buf, table_positions |-> table_positions]
    ELSE LET aligned == align4(buf)
             entry_start == Len(aligned)
             Rest(encoded) ==
                 InOrder(<< entry_start, Len(encoded) >>,
                         EncodeLogs(encoded, Tail(logs),
                                    Append(table_positions,
                                           entry_start + read_u32(encoded, entry_start))))
         IN  Rest(encode_log_entry_into(aligned, Head(logs)))

\* A loop that patches the offsets from the last table position to the first.
RECURSIVE PatchOffsets_Reversed(_, _, _, _)
PatchOffsets_Reversed(buf, offsets_start, table_positions, i) ==
    IF i >= Len(table_positions) THEN buf
    ELSE PatchOffsets_Reversed(patch_offset(buf, offsets_start + i * 4,
                                            table_positions[Len(table_positions) - i]),
                               offsets_start, table_positions, i + 1)

\* The loop that patches the offsets of the vector, from entry i on.
RECURSIVE PatchOffsets(_, _, _, _)
PatchOffsets(buf, offsets_start, table_positions, i) ==
    IF i >= Len(table_positions) THEN buf
    ELSE PatchOffsets(patch_offset(buf, offsets_start + i * 4, table_positions[i + 1]),
                      offsets_start, table_positions, i + 1)

\* The part that encode_event_data_into and encode_log_data_into have in
\* common; each(b) encodes the entries after b.
DataInto(buf, count, each(_)) ==
    LET data_start == Len(buf)
        root_pos == Len(buf)
        b0 == buf \o Zeros(4)
        vtable_start == Len(b0)
        b1 == write_u16s(b0, << 6, 8, 4 >>) \o Zeros(2)
        table_start == Len(b1)
        b2 == write_i32(b1, table_start - vtable_start)
        vec_off_pos == Len(b2)
        b3 == align4(write_u32(b2, 0))
        vec_start == Len(b3)
        b4 == write_u32(b3, count)
        offsets_start == Len(b4)
        b5 == align4(b4 \o Zeros(4 * count))
        Patched(r) ==
            InOrder(<< Len(r.buf) >>,
                    PatchOffsets(r.buf, offsets_start, r.table_positions, 0))
        p0 == Patched(each(b5))
        p1 == patch_offset(p0, vec_off_pos, vec_start)
    IN  InOrder(<< vtable_start, table_start, vec_off_pos, vec_start, offsets_start >>,
                patch_u32(p1, root_pos, table_start - data_start))

encode_event_data_into(buf, events) ==
    LET each(b) == EncodeEvents(b, events, << >>)
    IN  DataInto(buf, Len(events), each)

encode_log_data_into(buf, logs) ==
    LET each(b) == EncodeLogs(b, logs, << >>)
    IN  DataInto(buf, Len(logs), each)

encode_batch_into(buf, params) ==
    LET has_batch_id == params.batch_id # 0
        version == IF params.version = 0 THEN DEFAULT_VERSION ELSE params.version
        base == Len(buf)
        b0 == buf \o Zeros(4)
        vtable_start == Len(b0)
        b1 == write_u16s(b0, << 16, 32, 4, 24, 25, IF has_batch_id THEN 16 ELSE 0, 8, 0 >>)
        table_start == Len(b1)
        b2 == write_i32(b1, table_start - vtable_start)
        api_key_off_pos == Len(b2)
        b3 == write_u32(b2, 0)
        data_off_pos == Len(b3)
        b4 == write_u32(write_u32(b3, 0), 0)
        b5 == write_u64(b4, params.batch_id) \o << params.schema_type, version >> \o Zeros(2)
        b6 == align4(b5)
        api_key_start == Len(b6)
        b7 == align4(write_byte_vector(b6, params.api_key, API_KEY_LENGTH))
        data_start == Len(b7)
        b8 == write_byte_vector(b7, params.data, params.data_len)
        p0 == patch_u32(b8, base, table_start)
        p1 == patch_offset(p0, api_key_off_pos, api_key_start)
    IN  InOrder(<< vtable_start, table_start, api_key_off_pos, data_off_pos,
                   api_key_start, data_start >>,
                patch_offset(p1, data_off_pos, data_start))

\* The arguments of the encoders that are tried.

\* A destination buffer that already holds n bytes.
Filled(n) == [i \in 1..n |-> 170]

Buffers == {Filled(n) : n \in 0..MaxStart}

\* "app"
App == << 97, 112, 112 >>

\* No string, "", "E", "Evnt"
Strings == {NullPtr, PtrTo(<< >>), PtrTo(<< 69 >>), PtrTo(<< 69, 118, 110, 116 >>)}

\* No payload, an empty one, "{}", "{\"a\":1}"
Payloads == {NullPtr, PtrTo(<< >>), PtrTo(<< 123, 125 >>),
             PtrTo(<< 123, 34, 97, 34, 58, 49, 125 >>)}

DeviceId == [i \in 1..UUID_LENGTH |-> i]

SessionId == [i \in 1..UUID_LENGTH |-> 32 + i]

SizeOf(ptr) == IF ptr.null THEN 0 ELSE Len(ptr.v)

EventParams ==
    {[event_type |-> 1, timestamp |-> ts, service |-> sv, service_len |-> SizeOf(sv),
      device_id |-> d, session_id |-> ss, event_name |-> n,
      event_name_len |-> SizeOf(n), payload |-> pl, payload_len |-> SizeOf(pl)] :
        ts \in {0, 1000}, sv \in {NullPtr, PtrTo(<< >>), PtrTo(App)},
        d \in {NullPtr, PtrTo(DeviceId)}, ss \in {NullPtr, PtrTo(SessionId)},
        n \in Strings, pl \in Payloads}

LogEntryParams ==
    {[event_type |-> 1, level |-> lv, timestamp |-> 1000, session_id |-> ss,
      source |-> so, source_len |-> SizeOf(so), service |-> sv,
      service_len |-> SizeOf(sv), payload |-> pl, payload_len |-> SizeOf(pl)] :
        lv \in {3, 6}, ss \in {NullPtr, PtrTo(SessionId)}, so \in Strings,
        sv \in {NullPtr, PtrTo(<< >>), PtrTo(App)}, pl \in Payloads}

\* The events and log entries that the vectors given to the containers hold.
SomeEvents ==
    {e \in EventParams :
        /\ e.timestamp = 1000 /\ ~e.service.null /\ e.service_len > 0
        /\ ~e.device_id.null /\ ~e.session_id.null
        /\ e.event_name_len \in {0, 1} /\ e.payload_len \in {0, 2}
        /\ e.event_name.null /\ e.payload.null = (e.payload_len = 0)}

SomeLogs ==
    {l \in LogEntryParams :
        /\ l.level = 6 /\ ~l.session_id.null /\ l.source.null
        /\ l.service_len \in {0, 3} /\ l.payload_len \in {0, 2}
        /\ l.service.null = (l.service_len = 0) /\ l.payload.null}

VectorsOf(S) == UNION {[1..n -> S] : n \in 0..MaxEntries}

\* The api key of the tests: a1b2c3d4e5f60718293a4b5c6d7e8f90.
TestApiKey ==
    << 161, 178, 195, 212, 229, 246, 7, 24, 41, 58, 75, 92, 109, 126, 143, 144 >>

BatchData == {PtrTo(<< 1, 2, 3, 4 >>), PtrTo(<< 0 >>), PtrTo(<< 7, 0, 0, 0, 8, 9 >>)}

BatchParams ==
    {[api_key |-> PtrTo(TestApiKey), schema_type |-> st, version |-> v,
      batch_id |-> id, data |-> d, data_len |-> SizeOf(d)] :
        st \in {1, 2}, v \in {0, DEFAULT_VERSION}, id \in {0, 1, 42}, d \in BatchData}

\* A call about to be made: the encoder, the destination buffer as it is,
\* and the arguments.
Calls(fn, args) ==
    {[pc |-> "call", fn |-> fn, buf |-> b, params |-> a] : b \in Buffers, a \in args}

EncoderCalls ==
    Calls("encode_event_into", EventParams)
        \cup Calls("encode_log_entry_into", LogEntryParams)
        \cup Calls("encode_event_data_into", {[events |-> v] : v \in VectorsOf(SomeEvents)})
        \cup Calls("encode_log_data_into", {[logs |-> v] : v \in VectorsOf(SomeLogs)})
        \cup Calls("encode_batch_into", BatchParams)

EncodeFrame ==
    /\ UNCHANGED << queue_, mutex_, wake, deadline, max_retries, errors, promise,
                    evicted, dpc, joins, ctor, tx >>
    /\ UNCHANGED workerVars
    /\ UNCHANGED << pc, callno, waiting, last_return, enqueued, accepted, close_called,
                    super_props_map, super_props_mutex, session_mutex, session_id,
                    uuids, local, mutlog, placed, device_id >>

\* One encoder is run on its arguments: out is the destination buffer
\* afterwards.
Encode(fn, out) ==
    /\ enc.pc = "call"
    /\ enc.fn = fn
    /\ enc' = [pc |-> "done", fn |-> enc.fn, buf |-> enc.buf, params |-> enc.params,
               out |-> out]
    /\ EncodeFrame

E_Event == Encode("encode_event_into", encode_event_into(enc.buf, enc.params))

E_LogEntry == Encode("encode_log_entry_into", encode_log_entry_into(enc.buf, enc.params))

E_EventData == Encode("encode_event_data_into", encode_event_data_into(enc.buf, enc.params.events))

E_LogData == Encode("encode_log_data_into", encode_log_data_into(enc.buf, enc.params.logs))

E_Batch == Encode("encode_batch_into", encode_batch_into(enc.buf, enc.params))

(* ---------------------------------------------------------------- worker *)

\* run() without the lock.unlock() after the swap: the unique_lock keeps the
\* mutex until the end of the iteration.
UnlockAfterSwap_Omitted == "worker"

\* run(): lock.unlock() after the swap of the channel into local_queue.
UnlockAfterSwap == "free"

\* The unique_lock of one loop iteration goes out of scope.
ScopeExit(mx) == IF mx = "worker" THEN "free" ELSE mx

\* run(): the predicate of cv_.wait_until.
WaitPredicate == queue_ # << >> \/ ~running_

\* The flush-and-complete block entered for a flush only.
ShouldComplete_FlushOnly(sf, sc) == sf

\* run(): `if (should_flush || should_close)`.
ShouldComplete(sf, sc) == sf \/ sc

\* The round's completions signalled before the logs are flushed.
RoundOrder_FlushLogsLast == << "flush_events", "complete", "flush_logs" >>

\* The round's completions signalled before the flushes.
RoundOrder_CompleteFirst == << "complete", "flush_events", "flush_logs" >>

\* run(): what `if (should_flush || should_close) { ... }` does, in order:
\* flush_events(), flush_logs(), then set_value on the round's completions.
RoundOrder == << "flush_events", "flush_logs", "complete" >>

\* The position after stage s of the round: the next stage, or the end of the
\* loop body (the `if (should_close)` test).
NextStage(s) ==
    LET i == CHOOSE k \in 1..Len(RoundOrder) : RoundOrder[k] = s
    IN  IF i < Len(RoundOrder) THEN RoundOrder[i + 1] ELSE "end"

\* NeedsFlush with `>` for `>=`.
NeedsFlush_OffByOne(staging) == Len(staging) > batch_size

\* run(): a staging vector has reached the batch size.
NeedsFlush(staging) == Len(staging) >= batch_size

\* A flush that copies the staging vector instead of swapping it out.
StagingAfterFlush_Kept(staging) == staging

\* flush_events / flush_logs: std::swap with a fresh vector leaves the staging
\* vector empty.
StagingAfterFlush(staging) == << >>

\* A batch counter that is read with load() and never advanced.
NextBatchId_Same(c) == c

\* batch_counter_.fetch_add(1): the counter after a batch has taken its id.
NextBatchId(c) == c + 1

\* flush_events / flush_logs on a non-empty staging vector, up to the call of
\* transport_.send_frame: the batch takes the next batch_id.
BeginSend(kind, staging, next) ==
    /\ inflight' = [schema_type |-> kind, batch_id |-> batch_counter_, recs |-> staging]
    /\ batch_counter_' = NextBatchId(batch_counter_)
    /\ wpc' = "send"
    /\ ret' = next

\* promise::set_value for each entry of the completions vector cs.
SetValues(pr, cs) ==
    [h \in DOMAIN pr |->
        IF \E i \in 1..Len(cs) : cs[i] = h
        THEN [st |-> "set",
              sets |-> pr[h].sets + Cardinality({i \in 1..Len(cs) : cs[i] = h})]
        ELSE pr[h]]

\* run(): `std::unique_lock lock(mutex_)` at the top of an iteration.
W_Lock ==
    /\ wpc = "top"
    /\ running_
    /\ mutex_ = "free"
    /\ mutex_' = "worker"
    /\ wpc' = "locked"
    /\ UNCHANGED << queue_, wake, deadline, ret, local_queue, should_flush,
                    should_close, completions, event_queue_, log_queue_,
                    batch_counter_, running_, inflight, socket_fd_, max_retries,
                    retry_threads_, nfail, frames, errors, promise, round_sigs,
                    evicted >>
    /\ UNCHANGED producerVars

\* run(): cv_.wait_until with the mutex held: either the wait is over and the
\* channel is swapped into local_queue, or the worker goes to sleep.
W_Wait ==
    /\ wpc = "locked"
    /\ IF WaitPredicate \/ deadline
       THEN /\ local_queue' = queue_
            /\ queue_' = << >>
            /\ mutex_' = UnlockAfterSwap
            /\ should_flush' = FALSE
            /\ should_close' = FALSE
            /\ completions' = << >>
            /\ round_sigs' = {Handle(m) : m \in {x \in Range(queue_) : IsSignal(x)}}
            /\ wpc' = "process"
       ELSE /\ mutex_' = "free"
            /\ wpc' = "sleeping"
            /\ UNCHANGED << queue_, local_queue, should_flush, should_close,
                            completions, round_sigs >>
    /\ UNCHANGED << wake, deadline, ret, event_queue_, log_queue_, batch_counter_,
                    running_, inflight, socket_fd_, max_retries, retry_threads_,
                    nfail, frames, errors, promise, evicted >>
    /\ UNCHANGED producerVars

\* run(): the sleeping worker is notified or its deadline passes; it takes
\* the mutex again and re-evaluates the wait.
W_Wake ==
    /\ wpc = "sleeping"
    /\ wake \/ deadline
    /\ mutex_ = "free"
    /\ mutex_' = "worker"
    /\ wake' = FALSE
    /\ wpc' = "locked"
    /\ UNCHANGED << queue_, deadline, ret, local_queue, should_flush, should_close,
                    completions, event_queue_, log_queue_, batch_counter_,
                    running_, inflight, socket_fd_, max_retries, retry_threads_,
                    nfail, frames, errors, promise, round_sigs, evicted >>
    /\ UNCHANGED producerVars

\* run(): one iteration of `while (!local_queue.empty())`.
W_Process ==
    /\ wpc = "process"
    /\ local_queue # << >>
    /\ LET msg == Head(local_queue) IN
       /\ local_queue' = Tail(local_queue)
       /\ CASE msg.t = "event" ->
                 LET staged == Append(event_queue_, msg) IN
                 /\ IF NeedsFlush(staged)
                    THEN event_queue_' = StagingAfterFlush(staged)
                         /\ BeginSend("Event", staged, "process")
                    ELSE event_queue_' = staged
                         /\ UNCHANGED << inflight, batch_counter_, wpc, ret >>
                 /\ UNCHANGED << log_queue_, should_flush, should_close, completions >>
            [] msg.t = "log" ->
                 LET staged == Append(log_queue_, msg) IN
                 /\ IF NeedsFlush(staged)
                    THEN log_queue_' = StagingAfterFlush(staged)
                         /\ BeginSend("Log", staged, "process")
                    ELSE log_queue_' = staged
                         /\ UNCHANGED << inflight, batch_counter_, wpc, ret >>
                 /\ UNCHANGED << event_queue_, should_flush, should_close, completions >>
            [] msg.t = "flush" ->
                 /\ should_flush' = TRUE
                 /\ completions' = Append(completions, Handle(msg))
                 /\ UNCHANGED << event_queue_, log_queue_, should_close, inflight,
                                 batch_counter_, wpc, ret >>
            [] msg.t = "close" ->
                 /\ should_close' = TRUE
                 /\ completions' = Append(completions, Handle(msg))
                 /\ UNCHANGED << event_queue_, log_queue_, should_flush, inflight,
                                 batch_counter_, wpc, ret >>
    /\ UNCHANGED << queue_, mutex_, wake, deadline, running_, socket_fd_, max_retries,
                    retry_threads_, nfail, frames, errors, promise, round_sigs,
                    evicted >>
    /\ UNCHANGED producerVars

\* A timer check that never finds the deadline elapsed.
TimerElapsed_Never(d) == FALSE

\* run(): `now >= next_flush`, d telling whether the deadline has passed.
TimerElapsed(d) == d

\* run(): local_queue is empty: the timer check, then either the round's
\* flush starts or the iteration ends.
W_Timer ==
    /\ wpc = "process"
    /\ local_queue = << >>
    /\ should_flush' = (should_flush \/ TimerElapsed(deadline))
    /\ deadline' = FALSE
    /\ IF ShouldComplete(should_flush \/ TimerElapsed(deadline), should_close)
       THEN wpc' = RoundOrder[1]
       ELSE wpc' = "end"
    /\ UNCHANGED << queue_, mutex_, wake, ret, local_queue, should_close, completions,
                    event_queue_, log_queue_, batch_counter_, running_, inflight,
                    socket_fd_, max_retries, retry_threads_, nfail, frames, errors,
                    promise, round_sigs, evicted >>
    /\ UNCHANGED producerVars

\* run(): flush_events() of the round's flush.
W_FlushEvents ==
    /\ wpc = "flush_events"
    /\ IF event_queue_ = << >>
       THEN /\ wpc' = NextStage("flush_events")
            /\ UNCHANGED << event_queue_, inflight, batch_counter_, ret >>
       ELSE /\ event_queue_' = StagingAfterFlush(event_queue_)
            /\ BeginSend("Event", event_queue_, NextStage("flush_events"))
    /\ UNCHANGED << queue_, mutex_, wake, deadline, local_queue, should_flush,
                    should_close, completions, log_queue_, running_, socket_fd_,
                    max_retries, retry_threads_, nfail, frames, errors, promise,
                    round_sigs, evicted >>
    /\ UNCHANGED producerVars

\* run(): flush_logs() of the round's flush.
W_FlushLogs ==
    /\ wpc = "flush_logs"
    /\ IF log_queue_ = << >>
       THEN /\ wpc' = NextStage("flush_logs")
            /\ UNCHANGED << log_queue_, inflight, batch_counter_, ret >>
       ELSE /\ log_queue_' = StagingAfterFlush(log_queue_)
            /\ BeginSend("Log", log_queue_, NextStage("flush_logs"))
    /\ UNCHANGED << queue_, mutex_, wake, deadline, local_queue, should_flush,
                    should_close, completions, event_queue_, running_, socket_fd_,
                    max_retries, retry_threads_, nfail, frames, errors, promise,
                    round_sigs, evicted >>
    /\ UNCHANGED producerVars

\* send_or_retry that hands every failed batch to a retry thread.
RetriesConfigured_Always == TRUE

\* send_or_retry: `config_.max_retries() > 0`.
RetriesConfigured == max_retries > 0

\* The limit check with `>` for `>=`.
PoolFull_OffByOne(pool) == Len(pool) > MAX_RETRY_THREADS

\* send_or_retry: `retry_threads_.size() >= MAX_RETRY_THREADS`.
PoolFull(pool) == Len(pool) >= MAX_RETRY_THREADS

\* send_or_retry: the erase(remove_if(...)) before the limit check. The
\* predicate removes a std::thread only if it is not joinable(); a thread
\* that was started and has not been joined is joinable() whether or not it
\* has finished, so every entry is kept.
Reap(pool) == SelectSeq(pool, LAMBDA t : t.joinable)

\* Worker::send_or_retry after a failed first send of frame f.
SendOrRetryFailed(f) ==
    IF RetriesConfigured
    THEN IF PoolFull(Reap(retry_threads_))
         THEN /\ errors' = Append(errors, [kind |-> "Network",
                                           what |-> "send failed, retry pool full",
                                           thread |-> "worker", batch |-> f.batch_id])
              /\ retry_threads_' = Reap(retry_threads_)
         ELSE /\ retry_threads_' = Append(Reap(retry_threads_),
                                          [data |-> f, attempt |-> 1, st |-> "run",
                                           slept |-> FALSE, joinable |-> TRUE])
              /\ UNCHANGED errors
    ELSE /\ errors' = Append(errors, [kind |-> "Network",
                                      what |-> "send failed, no retries configured",
                                      thread |-> "worker", batch |-> f.batch_id])
         /\ UNCHANGED retry_threads_

\* send_or_retry: transport_.send_frame returns with network outcome o, and
\* on failure the batch goes to a retry thread or to the error callback.
W_Send(o) ==
    /\ wpc = "send"
    /\ socket_fd_' = SocketAfter(socket_fd_, o)
    /\ frames' = Append(frames, [schema_type |-> inflight.schema_type,
                                 batch_id |-> inflight.batch_id,
                                 recs |-> inflight.recs,
                                 by |-> "worker", ok |-> (o = "ok")])
    /\ IF o = "ok"
       THEN UNCHANGED << nfail, errors, retry_threads_ >>
       ELSE nfail' = nfail + 1 /\ SendOrRetryFailed(inflight)
    /\ inflight' = NoFrame
    /\ wpc' = ret
    /\ ret' = "none"
    /\ UNCHANGED << queue_, mutex_, wake, deadline, local_queue, should_flush,
                    should_close, completions, event_queue_, log_queue_,
                    batch_counter_, running_, max_retries, promise, round_sigs,
                    evicted >>
    /\ UNCHANGED producerVars

\* send_or_retry with the outcomes the network of the pipeline allows.
W_SendDone(o) == o \in Outcomes(socket_fd_) /\ W_Send(o)

\* run(): the round's flush is over: every handle of the round is completed.
W_Complete ==
    /\ wpc = "complete"
    /\ promise' = SetValues(promise, completions)
    /\ completions' = << >>
    /\ wpc' = NextStage("complete")
    /\ UNCHANGED << queue_, mutex_, wake, deadline, ret, local_queue, should_flush,
                    should_close, event_queue_, log_queue_, batch_counter_,
                    running_, inflight, socket_fd_, max_retries, retry_threads_,
                    nfail, frames, errors, round_sigs, evicted >>
    /\ UNCHANGED producerVars

\* A loop that goes on after a Close.
Terminates_Never(sc) == FALSE

\* run(): `if (should_close)` at the end of the loop body.
Terminates(sc) == sc

\* run(): the end of the loop body. `if (should_close)`: close the transport,
\* stop and return; otherwise the next iteration starts.
W_EndRound ==
    /\ wpc = "end"
    /\ IF Terminates(should_close)
       THEN /\ socket_fd_' = close_connection(socket_fd_)
            /\ running_' = FALSE
            /\ wpc' = "done"
       ELSE /\ wpc' = "top"
            /\ UNCHANGED << socket_fd_, running_ >>
    /\ mutex_' = ScopeExit(mutex_)
    /\ round_sigs' = {}
    /\ UNCHANGED << queue_, wake, deadline, ret, local_queue, should_flush,
                    should_close, completions, event_queue_, log_queue_,
                    batch_counter_, inflight, max_retries, retry_threads_, nfail,
                    frames, errors, promise, evicted >>
    /\ UNCHANGED producerVars

\* The retry loop with `<` for `<=`.
MoreAttempts_OffByOne(attempt) == attempt < max_retries

\* The retry loop counting its attempts from 0.
MoreAttempts_OneMore(attempt) == attempt <= max_retries + 1

\* retry_send: the loop test `attempt <= config_.max_retries()`.
MoreAttempts(attempt) == attempt <= max_retries

\* A retry_send that sends on the worker's transport_.
MainSocketAfterRetry_Shared(fd, ok) == IF ok THEN (IF fd >= 0 THEN fd ELSE 3) ELSE -1

\* retry_send: the socket of the worker's transport_ after an attempt of a
\* retry thread. The thread sends on retry_transport, a TcpTransport that it
\* constructs for itself, so transport_ is as it was.
MainSocketAfterRetry(fd, ok) == fd

\* retry_send: the pool once retry thread i has returned from the sleep_for
\* of its backoff delay.
SleepDone(pool, i) == [pool EXCEPT ![i].slept = TRUE]

\* Worker::retry_send: retry thread i passes the loop test and sleeps for its
\* backoff delay.
R_Sleep(i) ==
    /\ i \in 1..Len(retry_threads_)
    /\ retry_threads_[i].st = "run"
    /\ ~retry_threads_[i].slept
    /\ MoreAttempts(retry_threads_[i].attempt)
    /\ retry_threads_' = SleepDone(retry_threads_, i)
    /\ UNCHANGED << queue_, mutex_, wake, deadline, wpc, ret, local_queue,
                    should_flush, should_close, completions, event_queue_,
                    log_queue_, batch_counter_, running_, inflight, socket_fd_,
                    max_retries, promise, round_sigs, evicted, frames, nfail,
                    errors >>
    /\ UNCHANGED producerVars

\* Worker::retry_send after the sleep, in the pool `pool`: thread i calls
\* send_frame on its own transport with its copy of the bytes; ok tells
\* whether the call succeeds. On success the thread returns; on failure it
\* goes to the next iteration, or reports once the loop test fails.
R_SendFrame(pool, i, ok) ==
    /\ pool[i].st = "run"
    /\ pool[i].slept
    /\ frames' = Append(frames, [schema_type |-> pool[i].data.schema_type,
                                 batch_id |-> pool[i].data.batch_id,
                                 recs |-> pool[i].data.recs,
                                 by |-> "retry", ok |-> ok])
    /\ nfail' = IF ok THEN nfail ELSE nfail + 1
    /\ socket_fd_' = MainSocketAfterRetry(socket_fd_, ok)
    /\ IF ok
       THEN /\ retry_threads_' = [pool EXCEPT ![i].st = "done", ![i].slept = FALSE]
            /\ UNCHANGED errors
       ELSE IF MoreAttempts(pool[i].attempt + 1)
            THEN /\ retry_threads_' = [pool EXCEPT ![i].attempt = @ + 1,
                                                   ![i].slept = FALSE]
                 /\ UNCHANGED errors
            ELSE /\ retry_threads_' = [pool EXCEPT ![i].st = "done",
                                                   ![i].attempt = @ + 1,
                                                   ![i].slept = FALSE]
                 /\ errors' = Append(errors, [kind |-> "Network",
                                              what |-> "send failed after retries",
                                              thread |-> "retry",
                                              batch |-> pool[i].data.batch_id])
    /\ UNCHANGED << queue_, mutex_, wake, deadline, wpc, ret, local_queue,
                    should_flush, should_close, completions, event_queue_,
                    log_queue_, batch_counter_, running_, inflight, max_retries,
                    promise, round_sigs, evicted >>
    /\ UNCHANGED producerVars

\* Worker::retry_send: retry thread i, back from its sleep, makes its attempt.
R_Send(i, ok) ==
    /\ i \in 1..Len(retry_threads_)
    /\ R_SendFrame(retry_threads_, i, ok)

\* Worker::retry_send: one iteration of the loop of retry thread i as one
\* step, the sleep and then the attempt. The sleep touches nothing another
\* thread reads, so the step stands for the two steps R_Sleep and R_Send.
R_Try(i, ok) ==
    /\ i \in 1..Len(retry_threads_)
    /\ retry_threads_[i].st = "run"
    /\ ~retry_threads_[i].slept
    /\ MoreAttempts(retry_threads_[i].attempt)
    /\ R_SendFrame(SleepDone(retry_threads_, i), i, ok)

\* retry_send with the outcomes the network of the pipeline allows.
R_Attempt(i, ok) == (ok \/ nfail < MaxFail) /\ R_Try(i, ok)

\* Time passes: the flush deadline next_flush is reached.
Tick ==
    /\ ~deadline
    /\ wpc # "done"
    /\ deadline' = TRUE
    /\ UNCHANGED << queue_, mutex_, wake, max_retries, errors, promise, evicted >>
    /\ UNCHANGED workerVars
    /\ UNCHANGED producerVars

(* ----------------------------------------------------------- destruction *)

\* The Close signal that the destructor sends.
DtorClose == [t |-> "close", p |-> "dtor", n |-> 1, event_type |-> "none", name |-> ""]

\* Worker::~Worker, entry: `if (running_.load()) send_close()`, the future
\* dropped. The object is destroyed when no thread is inside a call on it.
D_Begin ==
    /\ dpc = "none"
    /\ \A p \in Producers : pc[p] = "idle"
    /\ IF running_
       THEN /\ mutex_ = "free"
            /\ queue_' = Enqueue(queue_, DtorClose)
            /\ evicted' = evicted \cup Dropped(queue_)
            /\ wake' = NotifyOne(wake, WasEmpty(queue_), wpc = "sleeping")
            /\ promise' = Abandon((Handle(DtorClose) :> [st |-> "pending", sets |-> 0])
                                  @@ promise, Dropped(queue_))
            /\ enqueued' = enqueued \cup {DtorClose}
       ELSE UNCHANGED << queue_, evicted, wake, promise, enqueued >>
    /\ dpc' = "join"
    /\ UNCHANGED << mutex_, deadline, max_retries, errors, pc, callno, waiting,
                    last_return, accepted, close_called, super_props_map,
                    super_props_mutex, session_mutex, session_id, uuids, local,
                    mutlog, placed, device_id, joins >>
    /\ UNCHANGED workerVars
    /\ UNCHANGED setupVars

\* A join that does not wait for the thread.
Joined_Always(w) == TRUE

\* thread_.join() returns only when run() has returned.
Joined(w) == w = "done"

\* Worker::~Worker: `if (thread_.joinable()) thread_.join()`.
D_Join ==
    /\ dpc = "join"
    /\ Joined(wpc)
    /\ joins' = [joins EXCEPT !.worker = @ + 1]
    /\ dpc' = "join_retry"
    /\ UNCHANGED << queue_, mutex_, wake, deadline, max_retries, errors, promise,
                    evicted, pc, callno, waiting, last_return, enqueued, accepted,
                    close_called, super_props_map, super_props_mutex, session_mutex,
                    session_id, uuids, local, mutlog, placed, device_id >>
    /\ UNCHANGED workerVars
    /\ UNCHANGED setupVars

\* A destructor that joins no retry thread.
Joinable_None(pool) == {}

\* The retry threads of the pool that have not been joined.
Joinable(pool) == {i \in 1..Len(pool) : pool[i].joinable}

\* Worker::~Worker: one iteration of the loop over retry_threads_ that finds
\* a joinable thread: join() returns when retry_send has returned.
D_JoinRetry ==
    /\ dpc = "join_retry"
    /\ Joinable(retry_threads_) # {}
    /\ LET i == CHOOSE k \in Joinable(retry_threads_) :
                    \A j \in Joinable(retry_threads_) : k <= j IN
       /\ retry_threads_[i].st = "done"
       /\ retry_threads_' = [retry_threads_ EXCEPT ![i].joinable = FALSE]
    /\ joins' = [joins EXCEPT !.retry = @ + 1]
    /\ UNCHANGED << queue_, mutex_, wake, deadline, wpc, ret, local_queue, should_flush,
                    should_close, completions, event_queue_, log_queue_,
                    batch_counter_, running_, inflight, socket_fd_, max_retries,
                    nfail, frames, errors, promise, round_sigs, evicted, dpc >>
    /\ UNCHANGED << pc, callno, waiting, last_return, enqueued, accepted, close_called,
                    super_props_map, super_props_mutex, session_mutex, session_id,
                    uuids, local, mutlog, placed, device_id >>
    /\ UNCHANGED setupVars

\* Worker::~Worker: the loop is over, retry_threads_.clear(), the destructor
\* returns.
D_Return ==
    /\ dpc = "join_retry"
    /\ Joinable(retry_threads_) = {}
    /\ retry_threads_' = << >>
    /\ dpc' = "done"
    /\ UNCHANGED << queue_, mutex_, wake, deadline, wpc, ret, local_queue, should_flush,
                    should_close, completions, event_queue_, log_queue_,
                    batch_counter_, running_, inflight, socket_fd_, max_retries,
                    nfail, frames, errors, promise, round_sigs, evicted, joins >>
    /\ UNCHANGED << pc, callno, waiting, last_return, enqueued, accepted, close_called,
                    super_props_map, super_props_mutex, session_mutex, session_id,
                    uuids, local, mutlog, placed, device_id >>
    /\ UNCHANGED setupVars

(* ------------------------------------------------------------ the system *)

TrackCall(u, e) == [op |-> "track", user_id |-> u, event_name |-> e]

IdentifyCall(u) == [op |-> "identify", user_id |-> u]

GroupCall(u, g) == [op |-> "group", user_id |-> u, group_id |-> g]

RevenueCall(u, a, c, o) ==
    [op |-> "revenue", user_id |-> u, amount |-> a, currency |-> c, order_id |-> o]

AliasCall(pr, u) == [op |-> "alias", previous_id |-> pr, user_id |-> u]

LogCall(m, s) == [op |-> "log", message |-> m, service |-> s]

FlushCall == [op |-> "flush"]

CloseCall == [op |-> "close"]

\* The calls the producers of the pipeline specification make.
PipelineCalls == {TrackCall(1, 1), LogCall(1, 0), FlushCall, CloseCall}

Ingest == \E p \in Producers : \E c \in PipelineCalls : Call(p, c)

Return == \E p \in Producers : ReturnReady(p) \/ ReturnTimeout(p)

SendDone == \E o \in {"ok", "connect_fail", "write_fail"} : W_SendDone(o)

Retry == \E i \in 1..Len(retry_threads_) : \E ok \in BOOLEAN : R_Attempt(i, ok)

Next ==
    \/ Ingest
    \/ Return
    \/ W_Lock
    \/ W_Wait
    \/ W_Wake
    \/ W_Process
    \/ W_Timer
    \/ W_FlushEvents
    \/ W_FlushLogs
    \/ SendDone
    \/ W_Complete
    \/ W_EndRound
    \/ Retry
    \/ Tick

Spec == Init /\ [][Next]_vars

\* The system with the one progress guarantee the waiters have: a timed
\* wait_for returns, at its timeout at the latest. Nothing is assumed about
\* the worker, which may be blocked or never scheduled.
WaitSpec ==
    /\ Spec
    /\ \A p \in Producers : WF_vars(ReturnReady(p) \/ ReturnTimeout(p))

\* The system on a healthy network: every send_frame succeeds, so no retry
\* thread is ever started.
HealthyNext ==
    \/ Ingest
    \/ Return
    \/ W_Lock
    \/ W_Wait
    \/ W_Wake
    \/ W_Process
    \/ W_Timer
    \/ W_FlushEvents
    \/ W_FlushLogs
    \/ W_SendDone("ok")
    \/ W_Complete
    \/ W_EndRound
    \/ Tick

\* The steps of the worker thread on a healthy network.
HealthyWorkerStep ==
    \/ W_Lock
    \/ W_Wait
    \/ W_Wake
    \/ W_Process
    \/ W_Timer
    \/ W_FlushEvents
    \/ W_FlushLogs
    \/ W_SendDone("ok")
    \/ W_Complete
    \/ W_EndRound

\* The worker thread keeps being scheduled, its sends end, and time passes.
HealthySpec ==
    /\ Init
    /\ [][HealthyNext]_vars
    /\ WF_vars(HealthyWorkerStep)
    /\ WF_vars(Tick)

\* The producers only make ingest calls: no flush() and no close().
IngestOnly == \E p \in Producers : \E c \in {TrackCall(1, 1), LogCall(1, 0)} : Call(p, c)

\* The steps of the worker thread, its sends ending in any way.
WorkerStep ==
    \/ W_Lock
    \/ W_Wait
    \/ W_Wake
    \/ W_Process
    \/ W_Timer
    \/ W_FlushEvents
    \/ W_FlushLogs
    \/ SendDone
    \/ W_Complete
    \/ W_EndRound

TimerNext ==
    \/ IngestOnly
    \/ WorkerStep
    \/ Retry
    \/ Tick

\* The system without flush() and close(): the worker thread keeps being
\* scheduled, its sends end, and time passes.
TimerSpec ==
    /\ Init
    /\ [][TimerNext]_vars
    /\ WF_vars(WorkerStep)
    /\ WF_vars(Tick)

\* The calls made on a client before it is destroyed.
LifeCalls == {TrackCall(1, 1), CloseCall}

\* The steps of the thread that destroys the worker, once it has begun.
Destroy == D_Join \/ D_JoinRetry \/ D_Return

LifeNext ==
    \/ dpc = "none" /\ \E p \in Producers : \E c \in LifeCalls : Call(p, c)
    \/ Return
    \/ WorkerStep
    \/ Retry
    \/ Tick
    \/ D_Begin
    \/ Destroy

\* A client is used and then destroyed, at any moment at which no thread is
\* inside a call. Every thread that exists keeps being scheduled: the worker
\* (its sends are bounded by network_timeout), the retry threads (their
\* sleeps are bounded) and the destroying thread.
LifeSpec ==
    /\ Init
    /\ [][LifeNext]_vars
    /\ WF_vars(WorkerStep)
    /\ WF_vars(Retry)
    /\ WF_vars(Destroy)

\* A retry thread's attempt on an unreachable endpoint.
RetryFailed == \E i \in 1..Len(retry_threads_) : R_Try(i, FALSE)

\* The system with the endpoint unreachable: the worker's transport never
\* connects, so every send_frame fails, the worker's and the retry threads'.
OutageNext ==
    \/ Ingest
    \/ Return
    \/ W_Lock
    \/ W_Wait
    \/ W_Wake
    \/ W_Process
    \/ W_Timer
    \/ W_FlushEvents
    \/ W_FlushLogs
    \/ W_Send("connect_fail")
    \/ W_Complete
    \/ W_EndRound
    \/ RetryFailed
    \/ Tick

\* A retry thread that has started keeps running: its sleeps are bounded (at
\* most 30 s) and its sends by network_timeout.
OutageSpec ==
    /\ Init
    /\ [][OutageNext]_vars
    /\ WF_vars(RetryFailed)

\* The calls of the error specification: a track that passes its checks, one
\* with an empty user_id, and flush().
ErrorCalls == {TrackCall(1, 1), TrackCall(0, 1), FlushCall}

ErrorNext ==
    \/ \E p \in Producers : \E c \in ErrorCalls : Call(p, c)
    \/ Return
    \/ W_Lock
    \/ W_Wait
    \/ W_Wake
    \/ W_Process
    \/ W_Timer
    \/ W_FlushEvents
    \/ W_FlushLogs
    \/ W_Send("connect_fail")
    \/ W_Complete
    \/ W_EndRound
    \/ RetryFailed
    \/ Tick

\* Valid and invalid calls against an unreachable endpoint: every kind of
\* error report occurs.
ErrorSpec == Init /\ [][ErrorNext]_vars

\* The outcomes send_frame can have on an unreliable network.
FlakyOutcomes(fd) == {"ok", "write_fail"} \cup (IF fd < 0 THEN {"connect_fail"} ELSE {})

\* The worker's send_frame returns, in any way.
FlakySend == \E o \in FlakyOutcomes(socket_fd_) : W_Send(o)

\* A retry thread sleeps, or makes its attempt, which fails or succeeds.
RetrySleep == \E i \in 1..Len(retry_threads_) : R_Sleep(i)

RetrySend == \E i \in 1..Len(retry_threads_) : \E ok \in BOOLEAN : R_Send(i, ok)

\* The producers track events.
TrackOnly == \E p \in Producers : Call(p, TrackCall(1, 1))

FlakyNext ==
    \/ TrackOnly
    \/ W_Lock
    \/ W_Wait
    \/ W_Wake
    \/ W_Process
    \/ W_Timer
    \/ W_FlushEvents
    \/ W_FlushLogs
    \/ FlakySend
    \/ W_Complete
    \/ W_EndRound
    \/ RetrySleep
    \/ RetrySend
    \/ Tick

\* Ingest calls on an unreliable network: any send_frame call, the worker's
\* or a retry thread's, fails or succeeds, and the sleep of a retry thread
\* is a step of its own.
FlakySpec == Init /\ [][FlakyNext]_vars

\* The steps of the worker thread on an unreliable network.
FlakyWorker ==
    \/ W_Lock
    \/ W_Wait
    \/ W_Wake
    \/ W_Process
    \/ W_Timer
    \/ W_FlushEvents
    \/ W_FlushLogs
    \/ FlakySend
    \/ W_Complete
    \/ W_EndRound

\* The unreliable network with the worker thread scheduled again and again,
\* its sends ending, and time passing. Nothing is assumed about the retry
\* threads: each may sleep for as long as it likes.
FlakyFairSpec ==
    /\ FlakySpec
    /\ WF_vars(FlakyWorker)
    /\ WF_vars(Tick)

\* A producer pushes an event or a flush signal; a producer that has pushed
\* onto an empty channel notifies.
Push == \E p \in Producers : \E c \in {TrackCall(1, 1), FlushCall} : E_Push(p, c)

Notify == \E p \in Producers : E_Notify(p)

NotifyNext ==
    \/ Push
    \/ Notify
    \/ Return
    \/ W_Lock
    \/ W_Wait
    \/ W_Wake
    \/ W_Process
    \/ W_Timer
    \/ W_FlushEvents
    \/ W_FlushLogs
    \/ W_SendDone("ok")
    \/ W_Complete
    \/ W_EndRound
    \/ Tick

\* The channel with the push and the notification of enqueue as two steps.
\* The worker thread keeps being scheduled and a producer that has pushed
\* goes on to notify; nothing is assumed about the flush deadline, which
\* may be arbitrarily far away.
NotifySpec ==
    /\ Init
    /\ [][NotifyNext]_vars
    /\ WF_vars(HealthyWorkerStep)
    /\ WF_vars(Notify)

\* The calls of the validation specification: every ingest operation with
\* arguments at and around each limit.
FacadeCalls ==
    {TrackCall(u, e) : u \in {0, 1}, e \in {0, 1, MaxEventName, MaxEventName + 1}}
    \cup {IdentifyCall(u) : u \in {0, 1}}
    \cup {GroupCall(u, g) : u \in {0, 1}, g \in {0, 1}}
    \cup UNION {{RevenueCall(u, a, c, o) : u \in {0, 1}, a \in {Num(-1), Num(0), Num(10), NaN}}
                : c \in {0, 1}, o \in {0, 1}}
    \cup {AliasCall(pr, u) : pr \in {0, 1}, u \in {0, 1}}
    \cup {LogCall(m, sv) : m \in {0, 1, MaxLogMessage, MaxLogMessage + 1},
                           sv \in {0, MaxServiceName, MaxServiceName + 1}}

IngestAny == \E p \in Producers : \E c \in FacadeCalls : Call(p, c)

\* The facade alone: producers make ingest calls with arbitrary arguments.
SpecVal == Init /\ [][IngestAny]_vars

\* Byte strings the calls below use: "u", "E", "g", "USD", "o1" and the
\* property keys "p", "q", "z" and "\x01", a control character.
Str == [u |-> << 117 >>, E |-> << 69 >>, g |-> << 103 >>, USD |-> << 85, 83, 68 >>,
        o1 |-> << 111, 49 >>, p |-> << 112 >>, q |-> << 113 >>, z |-> << 122 >>,
        ctl |-> << 1 >>, a |-> << 97 >>, b |-> << 98 >>, e |-> << 101 >>]

TrackWith(u, e, props) ==
    [op |-> "track", user_id |-> u, event_name |-> e, properties |-> props]

GroupWith(u, g, props) ==
    [op |-> "group", user_id |-> u, group_id |-> g, properties |-> props]

RevenueWith(u, a, c, o, props) ==
    [op |-> "revenue", user_id |-> u, amount |-> a, currency |-> c, order_id |-> o,
     properties |-> props]

RegisterCall(props) == [op |-> "register_props", properties |-> props]

UnregisterCall(k) == [op |-> "unregister", key |-> k]

\* The per-call properties of the ingest calls: none, or {"p":"e"}.
PerCall == {EmptyProps, AddString(EmptyProps, Str.p, Str.e)}

\* The ingest calls of the super-properties specification; one fails its check.
IngestCalls ==
    {TrackWith(Str.u, Str.E, props) : props \in PerCall}
    \cup {TrackWith(<< >>, Str.E, EmptyProps),
          GroupWith(Str.u, Str.g, AddString(EmptyProps, Str.p, Str.e)),
          RevenueWith(Str.u, Num(10), Str.USD, Str.o1, AddString(EmptyProps, Str.p, Str.e))}

\* The register_props calls: {}, {"p":"a"}, {"p":"b","q":1} and {"\x01":1}.
RegisterCalls ==
    {RegisterCall(EmptyProps),
     RegisterCall(AddString(EmptyProps, Str.p, Str.a)),
     RegisterCall(AddInt(AddString(EmptyProps, Str.p, Str.b), Str.q, 1)),
     RegisterCall(AddInt(EmptyProps, Str.ctl, 1))}

\* The unregister calls: a key that may be registered, the control-character
\* key, and a key that never is.
UnregisterCalls == {UnregisterCall(Str.p), UnregisterCall(Str.ctl), UnregisterCall(Str.z)}

\* One thread's steps through the facade calls that touch the super properties.
PropsStep(p) ==
    \/ \E c \in IngestCalls : IngestBegin(p, c)
    \/ ReadSuperProps(p)
    \/ ReadSessionId(p)
    \/ CopySessionId(p)
    \/ SendEvent(p)
    \/ \E c \in RegisterCalls : RegisterProps(p, c)
    \/ ParseProps(p)
    \/ RegisterReturn(p)
    \/ \E c \in UnregisterCalls : Unregister(p, c)
    \/ UnregisterReturn(p)

PropsNext == PropsStep("p1")

\* A single thread registers and unregisters super properties and makes
\* ingest calls, up to the push of each event into the channel.
PropsSpec == Init /\ [][PropsNext]_vars

\* The calls of the shared-state specification.
SharedIngestCalls == {TrackWith(Str.u, Str.E, EmptyProps)}

SharedRegisterCalls == {RegisterCall(AddInt(AddString(EmptyProps, Str.p, Str.b), Str.q, 1))}

SharedUnregisterCalls == {UnregisterCall(Str.p)}

SharedNext ==
    \E p \in Producers :
        \/ \E c \in SharedIngestCalls : IngestBegin(p, c)
        \/ ReadSuperProps(p)
        \/ ReadSessionId(p)
        \/ CopySessionId(p)
        \/ SendEvent(p)
        \/ \E c \in SharedRegisterCalls : RegisterProps(p, c)
        \/ ParseProps(p)
        \/ RegisterReturn(p)
        \/ \E c \in SharedUnregisterCalls : Unregister(p, c)
        \/ UnregisterReturn(p)
        \/ ResetSession(p)
        \/ ResetReturn(p)

\* Two threads call track, register_props, unregister and reset_session
\* concurrently, up to the push of each event into the channel.
SharedSpec == Init /\ [][SharedNext]_vars

\* Thread p is inside a call, or the threads may begin another one.
MayStep(p) == pc[p] # "idle" \/ TotalCalls < MaxConcurrentCalls

\* A step of thread p in a call on the facade: track, register_props,
\* unregister or reset_session; log, flush or close.
FacadeCall(p) ==
    \/ \E c \in SharedIngestCalls : IngestBegin(p, c)
    \/ ReadSuperProps(p)
    \/ ReadSessionId(p)
    \/ CopySessionId(p)
    \/ SendEvent(p)
    \/ \E c \in SharedRegisterCalls : RegisterProps(p, c)
    \/ ParseProps(p)
    \/ RegisterReturn(p)
    \/ \E c \in SharedUnregisterCalls : Unregister(p, c)
    \/ UnregisterReturn(p)
    \/ ResetSession(p)
    \/ ResetReturn(p)
    \/ \E c \in {LogCall(1, 0), FlushCall, CloseCall} : Call(p, c)
    \/ ReturnReady(p)
    \/ ReturnTimeout(p)

FacadeStep(p) == MayStep(p) /\ FacadeCall(p)

\* The steps that take a call of thread p, once begun, to its return.
ThreadStep(p) == pc[p] # "idle" /\ FacadeStep(p)

ConcurrentNext ==
    \/ \E p \in Producers : FacadeStep(p)
    \/ HealthyWorkerStep

\* Two threads call track, log, register_props, unregister, reset_session,
\* flush and close concurrently while the worker runs. Every thread keeps
\* being scheduled: a thread inside a call takes its next step once the lock
\* it needs can be taken.
ConcurrentSpec ==
    /\ Init
    /\ [][ConcurrentNext]_vars
    /\ WF_vars(HealthyWorkerStep)
    /\ \A p \in Producers : WF_vars(ThreadStep(p))

\* A step of thread p while the threads may make MaxCalls calls in all.
RecordStep(p) == (pc[p] # "idle" \/ TotalCalls < MaxCalls) /\ FacadeCall(p)

RecordNext ==
    \/ \E p \in Producers : RecordStep(p)
    \/ HealthyWorkerStep

\* Two threads make calls on the facade while the worker takes the records
\* from the channel, stages them and sends them.
RecordSpec == Init /\ [][RecordNext]_vars

\* The construction of a client from each api_key and endpoint tried.
ConstructInit ==
    /\ InitClient
    /\ \E k \in ApiKeys \cup {ZeroKey} : \E e \in Endpoints : ctor = Unbuilt(k, e)
    /\ enc = NoEncoding

ConstructNext == Build \/ NewTransport \/ StartThread

ConstructSpec == ConstructInit /\ [][ConstructNext]_vars

\* The payloads given to send_frame: none, one and two bytes.
TxFrames == { << >>, << 7 >>, << 8, 9 >> }

TransportNext ==
    \/ \E d \in TxFrames : \E connected \in BOOLEAN : T_SendFrame(d, connected)
    \/ \E n \in 1..4 : T_Write(n)
    \/ T_WriteFail
    \/ T_Close

\* One transport, its sends cut short and failing as the network decides.
TransportSpec == Init /\ [][TransportNext]_vars

EncodeInit ==
    /\ InitClient
    /\ ctor = Constructed(ZeroKey, TestEndpoint)
    /\ enc \in EncoderCalls

EncodeNext == E_Event \/ E_LogEntry \/ E_EventData \/ E_LogData \/ E_Batch

\* Each encoder on each of the arguments tried.
EncodeSpec == EncodeInit /\ [][EncodeNext]_vars

(* ---------------------------------------------------------------- claims *)

\* The frames the worker itself handed to its transport, in order.
WorkerFrames == SelectSeq(frames, LAMBDA f : f.by = "worker")

\* The steps that push a message into the channel, and the message pushed.
EnqueueStep == enqueued' # enqueued

Pushed == CHOOSE m \in enqueued' \ enqueued : TRUE

\* C2: the channel never holds more than MAX_QUEUE_SIZE messages; a push on a
\* full channel removes exactly the oldest message and appends the new one at
\* the tail, any other push only appends; and whenever a producer is about to
\* enqueue and the channel mutex is free the push is possible, however full
\* the channel is.
C2_ChannelBounded ==
    /\ [](Len(queue_) <= MAX_QUEUE_SIZE)
    /\ [][EnqueueStep =>
            IF Len(queue_) = MAX_QUEUE_SIZE
            THEN /\ queue_' = Append(Tail(queue_), Pushed)
                 /\ evicted' = evicted \cup {Head(queue_)}
            ELSE /\ queue_' = Append(queue_, Pushed)
                 /\ evicted' = evicted]_vars
    /\ [](\A p \in Producers :
            (pc[p] = "idle" /\ TotalCalls < MaxCalls /\ mutex_ = "free")
                => ENABLED Call(p, TrackCall(1, 1)))

\* C2 witness: a push on a full channel has evicted the oldest message and
\* the channel is full again.
C2_Witness == evicted # {} /\ Len(queue_) = MAX_QUEUE_SIZE

\* C4: two records of one kind that one producer enqueued in program order
\* and that both appear in frames are in batch_id order, or in one batch in
\* position order.
C4_OrderPreserved ==
    \A i, j \in 1..Len(frames) :
        \A k \in 1..Len(frames[i].recs) : \A l \in 1..Len(frames[j].recs) :
            LET a == frames[i].recs[k]
                b == frames[j].recs[l]
            IN  (a.p = b.p /\ a.t = b.t /\ a.n < b.n)
                    => \/ frames[i].batch_id < frames[j].batch_id
                       \/ frames[i].batch_id = frames[j].batch_id /\ k < l

\* C4 witness: one producer has two events in one batch, and two records of
\* one kind in different batches.
C4_Witness ==
    /\ \E i \in 1..Len(frames) :
          /\ Len(frames[i].recs) >= 2
          /\ frames[i].recs[1].p = frames[i].recs[2].p
    /\ \E i, j \in 1..Len(frames) :
          /\ frames[i].batch_id # frames[j].batch_id
          /\ \E a \in Range(frames[i].recs) : \E b \in Range(frames[j].recs) :
                a.p = b.p /\ a.t = b.t

\* The batches handed to the transport so far, the one being sent included.
Batches == Range(frames) \cup (IF wpc = "send" THEN {inflight} ELSE {})

\* C5: every batch handed to the transport holds between 1 and batch_size
\* records, all events under schema_type Event or all logs under Log.
C5_BatchShape ==
    \A f \in Batches :
        /\ Len(f.recs) >= 1
        /\ Len(f.recs) <= batch_size
        /\ f.schema_type \in {"Event", "Log"}
        /\ \A r \in Range(f.recs) :
              r.t = (IF f.schema_type = "Event" THEN "event" ELSE "log")

\* C5 witness: a full event batch and a log batch have been sent while the
\* other kind was staged or sent too.
C5_Witness ==
    /\ \E f \in Range(frames) : f.schema_type = "Event" /\ Len(f.recs) = batch_size
    /\ \E f \in Range(frames) : f.schema_type = "Log"

\* C6: the batch ids of the worker's non-empty flushes, in the order of their
\* first send, are 1, 2, 3, ...; the counter is always one more than the
\* number of batches begun, so an empty flush takes no id.
C6_BatchIds ==
    /\ \A i \in 1..Len(WorkerFrames) : WorkerFrames[i].batch_id = i
    /\ wpc = "send" => inflight.batch_id = Len(WorkerFrames) + 1
    /\ batch_counter_ = Len(WorkerFrames) + 1 + (IF wpc = "send" THEN 1 ELSE 0)

\* C6 witness: an event flush and a log flush have been sent, a round with
\* nothing staged has ended, and the next id is 3.
C6_Witness ==
    /\ Len(WorkerFrames) = 2
    /\ WorkerFrames[1].schema_type # WorkerFrames[2].schema_type
    /\ wpc = "end" /\ ~should_close /\ batch_counter_ = 3

\* The number of times record r occurs in the frames sent so far.
Copies(r) ==
    Cardinality({ik \in (1..Len(frames)) \X (1..MaxCalls) :
                    /\ ik[2] <= Len(frames[ik[1]].recs)
                    /\ frames[ik[1]].recs[ik[2]] = r})

InFrame(r) == \E f \in Range(frames) : r \in Range(f.recs)

\* Every send_frame call made so far has succeeded.
AllSendsOk == \A f \in Range(frames) : f.ok

\* C1 as stated: with every send successful, once the worker has processed a
\* Close and terminated, every record enqueued before close() is in exactly
\* one frame.
C1_NoLoss ==
    (AllSendsOk /\ wpc = "done") => \A r \in accepted : Copies(r) = 1

\* C1 amended: with every send successful, no record is in more than one
\* frame; once the worker has terminated, every record enqueued before
\* close() that was not evicted from the full channel is in exactly one frame;
\* and every such record is eventually in a frame: since a record stays in
\* its frame and the producers make finitely many calls, that is to say that
\* again and again no accepted record is left that is neither sent nor evicted.
C1_NoLossUnlessEvicted ==
    /\ [](AllSendsOk => \A r \in enqueued : IsRecord(r) => Copies(r) <= 1)
    /\ []((AllSendsOk /\ wpc = "done") =>
            \A r \in accepted \ evicted : Copies(r) = 1)
    /\ []<>(\A r \in accepted : r \in evicted \/ Copies(r) = 1)

\* C1 witness: the worker has terminated after successful sends, a record of
\* each producer is in a frame, and one record was evicted.
C1_Witness ==
    /\ wpc = "done" /\ AllSendsOk
    /\ \E r \in accepted \ evicted : Copies(r) = 1
    /\ \E r \in accepted \cap evicted : Copies(r) = 0

\* A step in which flush() of producer p returns because its handle is ready.
FlushReturnsReady(p) ==
    /\ pc[p] = "wait" /\ pc'[p] = "idle"
    /\ waiting[p].t = "flush"
    /\ last_return'[p] = "ready"

\* The records p enqueued before its message m.
EarlierRecords(p, m) == {r \in enqueued : IsRecord(r) /\ r.p = p /\ r.n < m.n}

\* C3 as stated: when a flush() returns with its handle ready, every record
\* its thread enqueued before it is in a frame whose send was attempted.
C3_FlushCoversEarlier ==
    [][\A p \in Producers :
          FlushReturnsReady(p) => \A r \in EarlierRecords(p, waiting[p]) : InFrame(r)]_vars

\* C3 amended: when a flush() returns because the worker completed its
\* handle, every record its thread enqueued before it and that was not evicted
\* from the full channel is in a frame whose send was attempted.
C3_FlushCoversEarlierUnlessEvicted ==
    [][\A p \in Producers :
          (FlushReturnsReady(p) /\ promise[Handle(waiting[p])].st = "set")
              => \A r \in EarlierRecords(p, waiting[p]) \ evicted : InFrame(r)]_vars

\* C3 witness: a producer's flush() has returned ready, completed by the
\* worker, after an earlier record of that producer was put in a frame.
C3_Witness ==
    \E p \in Producers : \E m \in enqueued :
        /\ m.t = "flush" /\ m.p = p /\ m.n = callno[p]
        /\ last_return[p] = "ready"
        /\ promise[Handle(m)].st = "set"
        /\ \E r \in EarlierRecords(p, m) : InFrame(r)

\* C7: no handle is completed twice; when a round ends every handle drained
\* in it has been completed exactly once; and the step that completes handles
\* completes all handles of the round at once, with both staging vectors
\* flushed and no send in progress, whatever the sends returned.
C7_Completions ==
    /\ [](\A h \in DOMAIN promise : promise[h].sets <= 1)
    /\ [](wpc \in {"end", "top", "done"} =>
            \A h \in round_sigs : promise[h].st = "set" /\ promise[h].sets = 1)
    /\ [][(\E h \in DOMAIN promise : promise'[h].sets > promise[h].sets) =>
            /\ event_queue_ = << >> /\ log_queue_ = << >>
            /\ local_queue = << >> /\ wpc # "send"
            /\ \A h \in round_sigs : promise'[h].st = "set" /\ promise'[h].sets = 1]_vars

\* C7 witness: a round that drained two signals, a Close among them, has
\* completed both handles although its send failed.
C7_Witness ==
    /\ wpc = "end" /\ should_close
    /\ Cardinality(round_sigs) = 2
    /\ \A h \in round_sigs : promise[h].st = "set"
    /\ frames # << >> /\ ~frames[Len(frames)].ok

C9_NoLockDuringSend ==
    wpc = "send" =>
        /\ mutex_ # "worker"
        /\ \A p \in Producers :
              (pc[p] = "idle" /\ TotalCalls < MaxCalls)
                  => ENABLED Call(p, TrackCall(1, 1))

\* C9 witness: the worker is in a send and the channel holds a message that
\* was enqueued after the round's drain.
C9_Witness == wpc = "send" /\ queue_ # << >> /\ TotalCalls < MaxCalls

\* The ingest calls the validation rules reject: an empty user_id, an
\* event_name that is empty or longer than 256 bytes, an empty group_id,
\* previous_id, currency or order_id, an amount that is not > 0, a log message
\* that is empty or longer than 65536 bytes, a service longer than 256 bytes.
ShouldReject(c) ==
    CASE c.op = "track" ->
            c.user_id = 0 \/ c.event_name = 0 \/ c.event_name > 256
      [] c.op = "identify" -> c.user_id = 0
      [] c.op = "group" -> c.user_id = 0 \/ c.group_id = 0
      [] c.op = "revenue" ->
            \/ c.user_id = 0 \/ c.currency = 0 \/ c.order_id = 0
            \/ ~(~c.amount.nan /\ c.amount.v > 0)
      [] c.op = "alias" -> c.previous_id = 0 \/ c.user_id = 0
      [] c.op = "log" -> c.message = 0 \/ c.message > 65536 \/ c.service > 256
      [] OTHER -> FALSE

\* C10: an ingest call that fails validation enqueues nothing and invokes the
\* error callback exactly once, with a Validation error.
C10_InvalidRejected ==
    [][\A p \in Producers : \A c \in FacadeCalls :
          (Call(p, c) /\ ShouldReject(c)) =>
              /\ queue_' = queue_
              /\ enqueued' = enqueued
              /\ Len(errors') = Len(errors) + 1
              /\ errors'[Len(errors')].kind = "Validation"]_vars

\* The error callbacks made for batch b, and the send_frame calls made for it.
ErrorsFor(b) == {k \in 1..Len(errors) : errors[k].batch = b}

FramesFor(b, by) ==
    {k \in 1..Len(frames) : frames[k].batch_id = b /\ frames[k].by = by}

\* C11: with max_retries > 0 and every send failing, a batch handed to a
\* retry thread gets no error from the worker's own failed send, never more
\* than one error, and its one error, "send failed after retries", exactly
\* when the retry thread has made max_retries failed attempts and ended; and
\* every retry thread does end.
C11_RetryExhaustionReportsOnce ==
    /\ [](max_retries > 0 =>
            \A i \in 1..Len(retry_threads_) :
                LET b == retry_threads_[i].data.batch_id IN
                /\ \A k \in ErrorsFor(b) :
                      /\ errors[k].thread = "retry"
                      /\ errors[k].kind = "Network"
                      /\ errors[k].what = "send failed after retries"
                /\ Cardinality(ErrorsFor(b)) =
                      (IF retry_threads_[i].st = "done" THEN 1 ELSE 0)
                /\ retry_threads_[i].st = "done"
                      <=> Cardinality(FramesFor(b, "retry")) = max_retries
                /\ Cardinality(FramesFor(b, "retry")) <= max_retries)
    /\ []<>(\A i \in 1..Len(retry_threads_) : retry_threads_[i].st = "done")

\* C11 witness: with max_retries = 2 a retry thread has ended after two
\* failed attempts and its batch has its one error, while another batch is
\* still being retried.
C11_Witness ==
    /\ max_retries = 2
    /\ \E i, j \in 1..Len(retry_threads_) :
          /\ retry_threads_[i].st = "done"
          /\ Cardinality(ErrorsFor(retry_threads_[i].data.batch_id)) = 1
          /\ Cardinality(FramesFor(retry_threads_[i].data.batch_id, "retry")) = 2
          /\ retry_threads_[j].st = "run"

\* C12: with max_retries = 0 no retry thread is ever created, every batch is
\* handed to the transport at most once, and a batch whose send failed has
\* exactly one error, a Network error made by the worker.
C12_NoRetryDrops ==
    max_retries = 0 =>
        /\ retry_threads_ = << >>
        /\ \A k \in 1..Len(frames) :
              /\ frames[k].by = "worker"
              /\ Cardinality(FramesFor(frames[k].batch_id, "worker")) = 1
              /\ ~frames[k].ok =>
                    /\ Cardinality(ErrorsFor(frames[k].batch_id)) = 1
                    /\ \A e \in ErrorsFor(frames[k].batch_id) :
                          /\ errors[e].kind = "Network"
                          /\ errors[e].thread = "worker"
                          /\ errors[e].what = "send failed, no retries configured"

\* C12 witness: with max_retries = 0 two batches have failed, each with its
\* error, and the worker has gone on to terminate.
C12_Witness ==
    /\ max_retries = 0
    /\ Len(frames) = 2 /\ Len(errors) = 2
    /\ wpc = "done"

\* C13: there are never more than MAX_RETRY_THREADS retry threads.
C13_PoolBounded == Len(retry_threads_) <= MAX_RETRY_THREADS

\* C13 witness: the pool is full and a further failed send has been refused.
C13_Witness ==
    /\ Len(retry_threads_) = MAX_RETRY_THREADS
    /\ \E k \in 1..Len(errors) : errors[k].what = "send failed, retry pool full"

\* The retry threads that have not finished.
Running(pool) == {i \in 1..Len(pool) : pool[i].st = "run"}

\* C14: only running retry threads count against the limit: a failed send is
\* refused with "send failed, retry pool full" only when MAX_RETRY_THREADS
\* retry threads are running at that moment.
C14_FinishedWorkersReaped ==
    [][(\E k \in 1..Len(errors') :
            k > Len(errors) /\ errors'[k].what = "send failed, retry pool full")
        => Cardinality(Running(retry_threads_)) = MAX_RETRY_THREADS]_vars

(* JSON as a reader of the payload sees it (RFC 8259), used to state the
   claims about payloads. *)

\* The value of a hexadecimal digit.
HexVal(c) == IF c >= 97 THEN c - 87 ELSE IF c >= 65 THEN c - 55 ELSE c - 48

\* The character a two-character escape stands for.
Unescaped(c) ==
    CASE c = 98 -> 8 [] c = 102 -> 12 [] c = 110 -> 10 [] c = 114 -> 13
      [] c = 116 -> 9 [] OTHER -> c

RECURSIVE JsonString(_, _, _)
\* The string whose text starts at b[i], after the opening quote: its decoded
\* characters and the index after its closing quote.
JsonString(b, i, acc) ==
    IF i > Len(b) THEN [s |-> acc, i |-> i]
    ELSE IF b[i] = 34 THEN [s |-> acc, i |-> i + 1]
    ELSE IF b[i] = 92 /\ i + 1 <= Len(b)
         THEN IF b[i + 1] = 117 /\ i + 5 <= Len(b)
              THEN JsonString(b, i + 6,
                              Append(acc, ((HexVal(b[i + 2]) * 16 + HexVal(b[i + 3])) * 16
                                           + HexVal(b[i + 4])) * 16 + HexVal(b[i + 5])))
              ELSE JsonString(b, i + 2, Append(acc, Unescaped(b[i + 1])))
    ELSE JsonString(b, i + 1, Append(acc, b[i]))

RECURSIVE JsonNumberEnd(_, _)
\* The index after the number or literal that starts at b[i].
JsonNumberEnd(b, i) ==
    IF i <= Len(b) /\ b[i] # 44 /\ b[i] # 125 THEN JsonNumberEnd(b, i + 1) ELSE i

RECURSIVE JsonMembers(_, _, _)
\* The members of the object from b[i] on, in order: decoded name and value
\* (a decoded string, or the text of a number or literal).
JsonMembers(b, i, acc) ==
    IF i <= Len(b) /\ b[i] = 34
    THEN LET k == JsonString(b, i + 1, << >>)
             v == IF b[k.i + 1] = 34
                  THEN JsonString(b, k.i + 2, << >>)
                  ELSE [s |-> SubSeq(b, k.i + 1, JsonNumberEnd(b, k.i + 1) - 1),
                        i |-> JsonNumberEnd(b, k.i + 1)]
         IN  JsonMembers(b, IF v.i <= Len(b) /\ b[v.i] = 44 THEN v.i + 1 ELSE v.i,
                         Append(acc, [name |-> k.s, value |-> v.s]))
    ELSE acc

\* The members of the JSON object `payload`.
JsonFields(payload) == JsonMembers(payload, 2, << >>)

\* The properties a Props builder was given, name and value, in order.
PropsGiven(props) == JsonFields(to_json_bytes(props))

\* The values of the members of `payload` named k, in order.
ValuesOf(payload, k) ==
    LET f == JsonFields(payload) IN
    [j \in 1..Cardinality({i \in 1..Len(f) : f[i].name = k}) |->
        f[CHOOSE i \in 1..Len(f) :
            /\ f[i].name = k
            /\ Cardinality({h \in 1..i : f[h].name = k}) = j].value]

\* The names of the super properties in the snapshot an event was built from.
SuperNames(r) == {x.name : x \in Range(JsonFields(<< 123 >> \o r.sp_raw \o << 125 >>))}

\* C15: when a key is both a super property and a per-call property of a
\* track, group or revenue call, the payload pushed into the channel has
\* exactly one member with that key, and its value is the per-call value.
C15_PerCallWins ==
    \A r \in placed :
        \A x \in Range(PropsGiven(r.c.properties)) :
            x.name \in SuperNames(r) => ValuesOf(r.m.payload, x.name) = << x.value >>

\* The last element of a non-empty sequence.
Last(q) == q[Len(q)]

\* C15, amended: when a key is both a super property and a per-call
\* property of a track, group or revenue call, the payload pushed into the
\* channel has that key more than once and the last member with that key
\* carries the per-call value.
C15_PerCallLast ==
    \A r \in placed :
        \A x \in Range(PropsGiven(r.c.properties)) :
            x.name \in SuperNames(r) =>
                /\ Len(ValuesOf(r.m.payload, x.name)) >= 2
                /\ Last(ValuesOf(r.m.payload, x.name))
                       = Last(ValuesOf(to_json_bytes(r.c.properties), x.name))

\* A track, a group and a revenue event have each been pushed with a
\* per-call property whose key was a super property at the time.
C15_Witness ==
    \A op \in {"track", "group", "revenue"} :
        \E r \in placed :
            /\ r.c.op = op
            /\ \E x \in Range(PropsGiven(r.c.properties)) : x.name \in SuperNames(r)

RECURSIVE Registered(_, _)
\* The super properties a caller expects after the register_props and
\* unregister calls of `log`, given the properties `sp` before them: each call
\* sets the properties it names, or removes the one it names.
Registered(sp, log) ==
    IF log = << >> THEN sp
    ELSE LET m == Head(log)
             given == IF m.op = "register_props" THEN PropsGiven(m.properties) ELSE << >>
             names == {x.name : x \in Range(given)}
         IN  Registered(IF m.op = "register_props"
                        THEN [k \in DOMAIN sp \cup names |->
                                 IF k \in names THEN Last(ValuesOf(to_json_bytes(m.properties), k))
                                 ELSE sp[k]]
                        ELSE [k \in DOMAIN sp \ {m.key} |-> sp[k]],
                        Tail(log))

\* The calls of `log` are all register_props calls.
OnlyRegisters(log) == \A i \in 1..Len(log) : log[i].op = "register_props"

\* The value a reader decodes from the raw JSON value `raw`.
MapValue(raw) == JsonFields(<< 123, 34, 34, 58 >> \o raw \o << 125 >>)[1].value

\* C16: after any sequence of register_props calls, each key is held once in
\* the super-properties map with the value of the latest call that set it,
\* and the payload of a later event carries each super-property key exactly
\* once, with that latest value.
C16_LatestWins ==
    /\ (super_props_mutex.w = "none" /\ OnlyRegisters(mutlog)) =>
           /\ DOMAIN super_props_map = DOMAIN Registered(<< >>, mutlog)
           /\ \A k \in DOMAIN Registered(<< >>, mutlog) :
                  MapValue(super_props_map[k]) = Registered(<< >>, mutlog)[k]
    /\ \A r \in placed :
           OnlyRegisters(SubSeq(mutlog, 1, r.seen)) =>
               \A k \in DOMAIN Registered(<< >>, SubSeq(mutlog, 1, r.seen)) :
                   k \notin {x.name : x \in Range(PropsGiven(r.c.properties))} =>
                       ValuesOf(r.m.payload, k)
                           = << Registered(<< >>, SubSeq(mutlog, 1, r.seen))[k] >>

\* The super-property keys without a control character that the writer
\* escapes as \uXXXX.
PlainKey(k) == \A i \in 1..Len(k) : k[i] >= 32 \/ k[i] \in {8, 9, 10, 12, 13}

\* C16 for the keys that survive the round trip through the raw buffer.
C16_LatestWinsPlainKeys ==
    \A r \in placed :
        (/\ OnlyRegisters(SubSeq(mutlog, 1, r.seen))
         /\ \A k \in DOMAIN Registered(<< >>, SubSeq(mutlog, 1, r.seen)) : PlainKey(k)) =>
            \A k \in DOMAIN Registered(<< >>, SubSeq(mutlog, 1, r.seen)) :
                k \notin {x.name : x \in Range(PropsGiven(r.c.properties))} =>
                    ValuesOf(r.m.payload, k)
                        = << Registered(<< >>, SubSeq(mutlog, 1, r.seen))[k] >>

\* The keys that the unregister calls of `log` named.
Unregistered(log) == {log[i].key : i \in {j \in 1..Len(log) : log[j].op = "unregister"}}

\* The step is the return of an unregister(k) call.
UnregisterReturns(k) ==
    /\ Len(mutlog') = Len(mutlog) + 1
    /\ Last(mutlog').op = "unregister"
    /\ Last(mutlog').key = k

\* C17: unregister(k) removes exactly the super property registered under k
\* and leaves every other one unchanged; it changes nothing when k is not
\* registered; and the payloads of later events hold no super property k.
C17_UnregisterRemovesExactly ==
    [][/\ \A k \in Unregistered(mutlog') :
              UnregisterReturns(k) =>
                  /\ \A j \in DOMAIN super_props_map' :
                         j \in DOMAIN super_props_map /\ super_props_map'[j] = super_props_map[j]
                  /\ Cardinality(DOMAIN super_props_map \ DOMAIN super_props_map')
                         = IF k \in DOMAIN Registered(<< >>, mutlog) THEN 1 ELSE 0
       /\ \A r \in placed' :
              \A k \in Unregistered(SubSeq(mutlog', 1, r.seen)) :
                  k \notin DOMAIN Registered(<< >>, SubSeq(mutlog', 1, r.seen)) =>
                      k \notin SuperNames(r)
      ]_vars

\* C17 for the keys that survive the round trip through the raw buffer.
C17_UnregisterRemovesPlainKeys ==
    [][\A k \in Unregistered(mutlog') :
           (UnregisterReturns(k) /\ \A j \in DOMAIN Registered(<< >>, mutlog) : PlainKey(j)) =>
               /\ \A j \in DOMAIN super_props_map' :
                      j \in DOMAIN super_props_map /\ super_props_map'[j] = super_props_map[j]
               /\ Cardinality(DOMAIN super_props_map \ DOMAIN super_props_map')
                      = IF k \in DOMAIN Registered(<< >>, mutlog) THEN 1 ELSE 0
      ]_vars

RECURSIVE MapAfter(_, _)
\* The super-properties map after the calls of `log`, in order, starting
\* from `map`.
MapAfter(map, log) ==
    IF log = << >> THEN map
    ELSE MapAfter(IF Head(log).op = "register_props"
                  THEN parse_props_into_map(Head(log).properties.buf_, map)
                  ELSE Erase(map, Head(log).key),
                  Tail(log))

\* C18: if a register_props or unregister call has returned before an event
\* is placed in the channel, the event's payload reflects it: the super
\* properties in the payload are those left by all the calls that had
\* returned when the event was pushed.
C18_SeesReturnedMutations ==
    \A r \in placed :
        r.sp_raw = read_super_props(MapAfter(<< >>, SubSeq(mutlog, 1, r.returned)))

\* C18, amended: if a register_props or unregister call has returned before
\* the event's call reads the super-properties map, the payload reflects it:
\* the super properties in the payload are those left by all the calls that
\* had returned when the map was read.
C18_SeesMutationsBeforeSnapshot ==
    \A r \in placed :
        r.sp_raw = read_super_props(MapAfter(<< >>, SubSeq(mutlog, 1, r.seen)))

\* Events have been pushed whose call read the map right after another
\* thread's register_props, and right after another thread's unregister,
\* had returned.
C18_Witness ==
    \A op \in {"register_props", "unregister"} :
        \E r \in placed :
            /\ r.seen >= 1
            /\ mutlog[r.seen].op = op
            /\ mutlog[r.seen].by # r.m.p
            /\ r.sp_raw # read_super_props(MapAfter(<< >>, SubSeq(mutlog, 1, r.seen - 1)))

\* C19: the session id stored in every record pushed into the channel is, as
\* a whole, a value the session has held: both halves come from the same
\* generated id, whatever reset_session calls ran meanwhile.
C19_SessionIdWhole ==
    \A r \in placed :
        /\ r.m.session_id[1] = r.m.session_id[2]
        /\ r.m.session_id[1] \in 1..uuids

\* Records with different session ids have been pushed, and a thread is in
\* the middle of copying a session id that a reset_session call produced.
C19_Witness ==
    /\ \E r1, r2 \in placed : r1.m.session_id # r2.m.session_id
    /\ \E p \in Producers : pc[p] = "copy_session_id" /\ local[p].session_id[1] > 1

\* The step is the return of producer p's close().
CloseReturns(p) == pc[p] = "wait" /\ waiting[p].t = "close" /\ pc'[p] = "idle"

\* C20: when close() returns, the worker has been joined: it has flushed,
\* closed the transport and terminated, and takes no further step.
C20_CloseJoinsWorker ==
    [][\A p \in Producers :
           CloseReturns(p) => (wpc' = "done" /\ ~running_' /\ socket_fd_' = -1)]_vars

\* C20, amended: when close() returns because the worker completed its
\* handle, the worker has processed the Close signal and flushed both staging
\* areas; what is left to it is to close the transport and terminate, and no
\* step of it drains the channel or sends again.
C20_CloseAfterFlush ==
    /\ [][\A p \in Producers :
             (CloseReturns(p) /\ promise[Handle(waiting[p])].st = "set") =>
                 /\ should_close'
                 /\ wpc' \in {"end", "done"}
                 /\ event_queue_' = << >> /\ log_queue_' = << >>
                 /\ local_queue' = << >> /\ completions' = << >>]_vars
    /\ [][(should_close /\ wpc \in {"end", "done"}) =>
             /\ wpc' \in {"end", "done"}
             /\ frames' = frames \/ Last(frames').by # "worker"
             /\ event_queue_' = event_queue_ /\ log_queue_' = log_queue_
             /\ (queue_' = queue_ \/ enqueued' # enqueued)]_vars

\* A close() has returned because the worker completed its handle, and the
\* worker has yet to close the transport and terminate.
C20_Witness ==
    \E m \in enqueued :
        /\ m.t = "close" /\ promise[Handle(m)].st = "set"
        /\ pc[m.p] = "idle" /\ callno[m.p] = m.n /\ last_return[m.p] = "ready"
        /\ wpc = "end" /\ running_

\* The step is an ingest call (not flush or close) that runs to its return.
IngestReturns == \E p \in Producers : callno'[p] # callno[p] /\ pc'[p] = "idle"

\* Message m is nowhere on the worker's side: not drained, staged or sent.
Untouched(m) ==
    /\ m \notin Range(local_queue)
    /\ m \notin Range(event_queue_) /\ m \notin Range(log_queue_)
    /\ m \notin Range(inflight.recs)
    /\ \A i \in 1..Len(frames) : m \notin Range(frames[i].recs)
    /\ \A i \in 1..Len(retry_threads_) : m \notin Range(retry_threads_[i].data.recs)

\* C21: after the worker has processed a Close, an ingest call is a no-op: it
\* leaves the channel unchanged, and no frame is ever sent for it.
C21_IngestAfterCloseNoOp ==
    /\ [][(should_close /\ IngestReturns) =>
             (queue_' = queue_ /\ evicted' = evicted)]_vars
    /\ [](should_close => \A m \in Range(queue_) : Untouched(m))

\* C21, amended: after the worker has processed a Close, an ingest call
\* still pushes its record into the channel (dropping the oldest message of
\* a full channel), but the worker never drains the channel again: the
\* record is never staged and no frame is ever sent for it.
C21_IngestAfterCloseNeverSent ==
    /\ [](should_close => \A m \in Range(queue_) : Untouched(m))
    /\ [][should_close =>
             /\ should_close'
             /\ \/ queue_' = queue_
                \/ EnqueueStep /\ queue_' = Enqueue(queue_, Pushed)]_vars

\* The worker has terminated and the channel is full of records pushed by a
\* thread after its close().
C21_Witness ==
    /\ wpc = "done" /\ should_close
    /\ Len(queue_) = MAX_QUEUE_SIZE
    /\ \E c \in enqueued :
           /\ c.t = "close" /\ promise[Handle(c)].st = "set"
           /\ \A i \in 1..Len(queue_) :
                  IsRecord(queue_[i]) /\ queue_[i].p = c.p /\ queue_[i].n > c.n

\* C22: without flush() or close() and below batch_size, staged records are
\* still sent: a round that finds the deadline elapsed flushes both staging
\* areas, a record leaves a staging area only into a batch handed to the
\* transport, and so again and again nothing is left staged.
C22_TimerFlush ==
    /\ [][(wpc = "process" /\ local_queue = << >> /\ deadline /\ wpc' # wpc) =>
             wpc' = "flush_events" /\ should_flush']_vars
    /\ []((wpc = "end" /\ should_flush) => (event_queue_ = << >> /\ log_queue_ = << >>))
    /\ [][\A m \in Range(event_queue_) \cup Range(log_queue_) :
             (m \notin Range(event_queue_') /\ m \notin Range(log_queue_')) =>
                 (wpc' = "send" /\ m \in Range(inflight'.recs))]_vars
    /\ []<>(event_queue_ = << >> /\ log_queue_ = << >> /\ wpc # "send")

\* A batch of fewer than batch_size records has been handed to the transport.
C22_Witness ==
    \E i \in 1..Len(frames) :
        /\ frames[i].by = "worker"
        /\ Len(frames[i].recs) < batch_size
        /\ \A m \in enqueued : IsRecord(m)

\* C23: destroying a client terminates, whether or not it was closed before:
\* the destructor returns, the worker has then flushed what it drained and
\* exited, and its thread has been joined exactly once.
C23_DestructionTerminates ==
    /\ (dpc = "join") ~> (dpc = "done")
    /\ [](dpc = "done" =>
            /\ wpc = "done" /\ ~running_
            /\ local_queue = << >> /\ event_queue_ = << >> /\ log_queue_ = << >>
            /\ joins.worker = 1)
    /\ [](joins.worker <= 1)

\* A client that was never closed has been destroyed after the worker sent
\* a record that the destructor's Close made it flush.
C23_Witness ==
    /\ dpc = "done" /\ ~close_called
    /\ \E i \in 1..Len(frames) : frames[i].by = "worker" /\ Len(frames[i].recs) < batch_size

\* The retry threads started so far: one for each failed send of the worker
\* that found retries configured and room in the pool.
Spawned ==
    IF max_retries > 0
    THEN Cardinality({i \in 1..Len(frames) : frames[i].by = "worker" /\ ~frames[i].ok})
         - Cardinality({i \in 1..Len(errors) :
                           errors[i].what = "send failed, retry pool full"})
    ELSE 0

Reports(k) == Len(errors') = Len(errors) + 1 /\ Last(errors').kind = k

\* C25: a Validation error reaches the callback on the calling thread, in
\* the course of the failing call and before it returns; a Network error
\* reaches it on the worker thread or on a retry thread, never on a
\* producer's.
C25_ErrorThreads ==
    /\ [](\A i \in 1..Len(errors) :
            /\ errors[i].kind = "Validation" => errors[i].thread \in Producers
            /\ errors[i].kind = "Network" => errors[i].thread \in {"worker", "retry"})
    /\ [][Reports("Validation") =>
             \E p \in Producers :
                 /\ Last(errors').thread = p
                 /\ pc[p] = "idle" /\ callno'[p] = callno[p] + 1 /\ pc'[p] = "idle"
                 /\ queue_' = queue_]_vars
    /\ [][Reports("Network") =>
             /\ pc' = pc /\ callno' = callno
             /\ \/ Last(errors').thread = "worker" /\ wpc = "send"
                \/ Last(errors').thread = "retry" /\ retry_threads_' # retry_threads_]_vars

\* The callback has received a Validation error from a producer and a Network
\* error from a retry thread.
C25_Witness ==
    /\ \E i \in 1..Len(errors) : errors[i].kind = "Validation"
    /\ \E i \in 1..Len(errors) :
           errors[i].kind = "Network" /\ errors[i].thread = "retry"

\* The callback has received a Validation error from a producer and a Network
\* error from the worker thread.
C25_WitnessWorker ==
    /\ \E i \in 1..Len(errors) : errors[i].kind = "Validation"
    /\ \E i \in 1..Len(errors) :
           errors[i].kind = "Network" /\ errors[i].thread = "worker"

\* A key of 32 characters from [0-9a-fA-F].
ValidApiKey(k) ==
    /\ Len(k) = 32
    /\ \A i \in 1..Len(k) : k[i] \in (48..57) \cup (65..70) \cup (97..102)

\* The value of a string of decimal digits.
RECURSIVE DigitsValue(_)
DigitsValue(s) ==
    IF s = << >> THEN 0
    ELSE 10 * DigitsValue(SubSeq(s, 1, Len(s) - 1)) + (s[Len(s)] - 48)

\* A string without its leading '0's.
RECURSIVE Significant(_)
Significant(s) == IF s # << >> /\ s[1] = 48 THEN Significant(Tail(s)) ELSE s

\* A decimal number in 1..65535.
DecimalPort(t) ==
    /\ t # << >>
    /\ \A i \in 1..Len(t) : t[i] \in 48..57
    /\ Len(Significant(t)) <= 5
    /\ DigitsValue(Significant(t)) \in 1..65535

\* host ':' port with such a port.
ValidEndpoint(e) ==
    \E k \in 1..Len(e) : e[k] = 58 /\ DecimalPort(SubSeq(e, k + 1, Len(e)))

\* No construction step is left to take.
ConstructionOver == ctor.pc \in {"done", "failed"}

\* C26: a construction from an api_key that is not 32 hex characters or from
\* an endpoint that is not host ':' port with a decimal port in 1..65535
\* ends with a Configuration error thrown to the caller, and the worker
\* thread is never started.
C26_BadConfigRejected ==
    (~ValidApiKey(ctor.api_key) \/ ~ValidEndpoint(ctor.endpoint)) =>
        /\ ~ctor.thread_
        /\ ConstructionOver => ctor.pc = "failed" /\ ctor.thrown = "Configuration"

\* C26, for the api_key alone: a construction from an api_key that is not 32
\* hex characters ends with a Configuration error, no worker thread started.
C26_BadApiKeyRejected ==
    ~ValidApiKey(ctor.api_key) =>
        /\ ~ctor.thread_
        /\ ConstructionOver => ctor.pc = "failed" /\ ctor.thrown = "Configuration"

\* The worker is in the round in which it drained a Close.
CloseRound == should_close /\ wpc # "done"

\* Every handle drained in the round has been completed.
RoundCompleted == \A h \in round_sigs : promise[h].st = "set"

\* Record m has been handed to send_frame in some batch.
Flushed(m) == \E i \in 1..Len(frames) : m \in Range(frames[i].recs)

\* The records the worker has drained from the channel.
Drained == {m \in enqueued \ evicted : IsRecord(m) /\ m \notin Range(queue_)}

\* C29: in the round in which the worker drains a Close, the staging areas
\* are flushed only when every drained message has been processed, records
\* behind the Close included; the round's handles are completed only when
\* both staging areas have been flushed; the transport is closed and the
\* worker terminates only when the handles have been completed; and a
\* terminated worker has empty staging areas, has flushed every record it
\* drained, and its transport has no open socket.
C29_CloseRoundOrder ==
    /\ [][(CloseRound /\ wpc \in {"flush_events", "flush_logs", "complete", "end"})
            => local_queue = << >>]_vars
    /\ [][(CloseRound /\ promise' # promise /\ wpc = "complete")
            => /\ event_queue_ = << >> /\ log_queue_ = << >>
               /\ socket_fd_' = socket_fd_ /\ running_]_vars
    /\ [][(wpc # "done" /\ wpc' = "done")
            => /\ should_close /\ wpc = "end"
               /\ completions = << >> /\ RoundCompleted
               /\ socket_fd_' = -1 /\ ~running_']_vars
    /\ [](wpc = "done" =>
            /\ local_queue = << >>
            /\ event_queue_ = << >> /\ log_queue_ = << >>
            /\ \A m \in Drained : Flushed(m)
            /\ socket_fd_ = -1)

\* The worker has terminated after a round in which a record that followed
\* the Close in the channel was flushed over a connection that the
\* termination closed.
C29_Witness ==
    /\ wpc = "done"
    /\ \E i \in 1..Len(frames) :
          /\ frames[i].ok /\ frames[i].by = "worker"
          /\ \E m \in Range(frames[i].recs) : m \notin accepted

\* A frame as it goes over the wire.
OnWire(d) == Header(Len(d)) \o d

RECURSIVE Concat(_)
Concat(ss) == IF ss = << >> THEN << >> ELSE Head(ss) \o Concat(Tail(ss))

IsPrefix(a, b) == Len(a) <= Len(b) /\ SubSeq(b, 1, Len(a)) = a

\* The frames whose send_frame returned true on connection c, as sent.
Delivered(c) ==
    Concat([i \in 1..Len(SelectSeq(tx.returned, LAMBDA r : r.ok /\ r.conn = c)) |->
               OnWire(SelectSeq(tx.returned, LAMBDA r : r.ok /\ r.conn = c)[i].data)])

\* What connection c has received after its delivered frames.
Remainder(c) == SubSeq(tx.wire[c], Len(Delivered(c)) + 1, Len(tx.wire[c]))

\* The step is a send_frame that returns false while it writes.
WriteFails ==
    /\ tx.pc \in {"header", "payload"}
    /\ Len(tx'.returned) = Len(tx.returned) + 1
    /\ ~Last(tx'.returned).ok

\* C30: a send_frame that fails while it writes the header or the payload
\* returns false and leaves the transport without an open socket; the next
\* send_frame writes nothing before it has made a new connection, and what it
\* writes there is its whole frame from the first header byte on: every
\* connection receives whole frames one after the other, followed at most by
\* the beginning of the one frame whose send is in progress on it or failed
\* on it, and no connection receives anything after such a failure.
C30_FailedSendReconnects ==
    /\ [][WriteFails => tx'.socket_fd_ = -1 /\ tx'.pc = "idle"]_vars
    /\ [][(tx.socket_fd_ < 0 /\ tx'.wire # tx.wire)
            => /\ tx'.conns = tx.conns + 1 /\ tx'.socket_fd_ = tx'.conns
               /\ tx'.wire = Append(tx.wire, << >>)]_vars
    /\ [][\A c \in 1..tx.conns : c # tx.socket_fd_ => tx'.wire[c] = tx.wire[c]]_vars
    /\ [](\A c \in 1..tx.conns :
            /\ IsPrefix(Delivered(c), tx.wire[c])
            /\ IF c = tx.socket_fd_ /\ tx.pc # "idle"
               THEN Remainder(c) = SubSeq(OnWire(tx.data), 1, Len(Remainder(c)))
               ELSE IF c = tx.socket_fd_
               THEN Remainder(c) = << >>
               ELSE \/ Remainder(c) = << >>
                    \/ \E i \in 1..Len(tx.returned) :
                          /\ ~tx.returned[i].ok /\ tx.returned[i].conn = c
                          /\ IsPrefix(Remainder(c), OnWire(tx.returned[i].data))
                          /\ Remainder(c) # OnWire(tx.returned[i].data))

\* A send_frame has failed in the middle of its payload, and the next one
\* has delivered its whole frame over a new connection.
C30_Witness ==
    \E i \in 1..Len(tx.returned) : \E j \in 1..Len(tx.returned) :
        /\ i < j
        /\ ~tx.returned[i].ok /\ tx.returned[i].conn > 0
        /\ Len(tx.wire[tx.returned[i].conn]) > 4
        /\ tx.returned[j].ok /\ tx.returned[j].conn > tx.returned[i].conn
        /\ tx.wire[tx.returned[j].conn] = OnWire(tx.returned[j].data)

\* Reading an encoded message back: little-endian numbers at a position.
U16(b, pos) == b[pos + 1] + 256 * b[pos + 2]

U32(b, pos) == U16(b, pos) + 65536 * b[pos + 3] + 16777216 * b[pos + 4]

\* Where the message written by the call starts, where its vtable starts
\* (after the root offset) and where its table starts (after the vtable and
\* its padding to four bytes).
MessageStart == Len(enc.buf)

VTableStart == MessageStart + 4

TableStart == VTableStart + 4 * ((U16(enc.out, VTableStart) + 3) \div 4)

\* The vtable slot of field k.
Slot(k) == U16(enc.out, VTableStart + 4 + 2 * k)

\* The root offset of the message that the call has written is not 0, is
\* smaller than the length of the message and leads from its own position
\* to the start of the table.
RootOffsetRight ==
    LET root == U32(enc.out, MessageStart) IN
    /\ root # 0
    /\ root < Len(enc.out) - MessageStart
    /\ MessageStart + root = TableStart
    /\ U32(enc.out, TableStart) = TableStart - VTableStart

\* C27: whichever of the five encoders wrote the message and wherever in the
\* destination buffer it starts, its root offset is non-zero, smaller than
\* the message length and equal to the distance from the root offset to the
\* table start.
C27_RootOffset == enc.pc = "done" => RootOffsetRight

\* C27 for the four encoders other than encode_batch_into, and for
\* encode_batch_into on an empty destination buffer.
C27_RootOffsetUnlessBatchAppended ==
    (enc.pc = "done" /\ (enc.fn # "encode_batch_into" \/ MessageStart = 0))
        => RootOffsetRight

\* An offset field of a message: its vtable slot, whether the caller gave
\* it, and its bytes.
Field(slot, present, ptr, len) ==
    [slot |-> slot, present |-> present,
     bytes |-> IF present THEN SubSeq(ptr.v, 1, len) ELSE << >>]

\* The offset fields of the message of the call. A string or an id is
\* present when its pointer is not null, a payload when its pointer is not
\* null and its length is not 0; api_key and data are always given.
OffsetFields ==
    LET a == enc.params IN
    CASE enc.fn = "encode_event_into" ->
            { Field(2, ~a.service.null, a.service, a.service_len),
              Field(3, ~a.device_id.null, a.device_id, 16),
              Field(4, ~a.session_id.null, a.session_id, 16),
              Field(5, ~a.event_name.null, a.event_name, a.event_name_len),
              Field(6, ~a.payload.null /\ a.payload_len # 0, a.payload, a.payload_len) }
      [] enc.fn = "encode_log_entry_into" ->
            { Field(1, ~a.session_id.null, a.session_id, 16),
              Field(4, ~a.source.null, a.source, a.source_len),
              Field(5, ~a.service.null, a.service, a.service_len),
              Field(6, ~a.payload.null /\ a.payload_len # 0, a.payload, a.payload_len) }
      [] enc.fn = "encode_batch_into" ->
            { Field(0, TRUE, a.api_key, 16),
              Field(4, TRUE, a.data, a.data_len) }
      [] OTHER -> {}

\* Following the relative offset in the table slot of field f leads to the
\* length of f and then to its bytes.
PointsTo(f) ==
    LET pos == TableStart + Slot(f.slot)
        target == pos + U32(enc.out, pos)
    IN  /\ target + 4 + Len(f.bytes) <= Len(enc.out)
        /\ U32(enc.out, target) = Len(f.bytes)
        /\ SubSeq(enc.out, target + 5, target + 4 + Len(f.bytes)) = f.bytes

\* C28: in an encoded event, log entry or batch the vtable slot of an
\* optional field is 0 exactly when the field is absent (that of batch_id
\* exactly when batch_id is 0), and the table slot of a present offset field
\* holds a relative offset that leads to the field's length followed by the
\* field's bytes.
C28_FieldsPresentAndFound ==
    enc.pc = "done" =>
        /\ \A f \in OffsetFields :
              /\ Slot(f.slot) = 0 <=> ~f.present
              /\ f.present => PointsTo(f)
        /\ enc.fn = "encode_batch_into" => (Slot(3) = 0 <=> enc.params.batch_id = 0)

\* An event has been written at a position that is not a multiple of four,
\* with a device id and a four-byte name, without a service and with a
\* payload pointer of length 0.
C28_Witness ==
    /\ enc.pc = "done" /\ enc.fn = "encode_event_into"
    /\ MessageStart % 4 # 0
    /\ ~enc.params.device_id.null /\ enc.params.service.null
    /\ enc.params.event_name_len = 4
    /\ ~enc.params.payload.null /\ enc.params.payload_len = 0
    /\ Slot(2) = 0 /\ Slot(6) = 0 /\ Slot(5) # 0

\* The sockets of the transport that are open.
OpenSockets == tx.open

\* A step of the transport in which connect() is called: a connection is
\* made, or a send_frame returns false before anything was written.
ConnectAttempted ==
    \/ tx'.conns > tx.conns
    \/ /\ tx.pc = "idle" /\ tx'.pc = "idle"
       /\ Len(tx'.returned) > Len(tx.returned)

\* C31: a transport has at most one open socket, and it is the one that
\* socket_fd_ names; connect() is called only when no socket is open;
\* close_connection on a transport without a socket changes nothing, and
\* closing twice gives what closing once gives.
C31_OneSocket ==
    /\ [](/\ Cardinality(OpenSockets) <= 1
          /\ OpenSockets = (IF tx.socket_fd_ >= 0 THEN {tx.socket_fd_} ELSE {})
          /\ tx.socket_fd_ < 0 => Closed(tx) = tx
          /\ Closed(Closed(tx)) = Closed(tx))
    /\ [][ConnectAttempted => OpenSockets = {}]_vars

\* The transport has connected a second time after its first socket was
\* closed, and its owner has called close_connection twice.
C31_Witness ==
    /\ tx.conns >= 2 /\ tx.closes >= 2
    /\ tx.socket_fd_ = 2 /\ OpenSockets = {2}

\* What a peer reads from the bytes w it has received: a big-endian length
\* N in four bytes, then N bytes, frame after frame; what is left when the
\* bytes run out in the middle of a frame is the rest.
BigEndian32(w) == w[1] * 16777216 + w[2] * 65536 + w[3] * 256 + w[4]

RECURSIVE ReadFrames(_, _)
ReadFrames(w, acc) ==
    IF Len(w) < 4 \/ Len(w) < 4 + BigEndian32(w)
    THEN [frames |-> acc, rest |-> w]
    ELSE ReadFrames(SubSeq(w, 5 + BigEndian32(w), Len(w)),
                    Append(acc, SubSeq(w, 5, 4 + BigEndian32(w))))

\* The payloads of the send_frame calls that returned true on connection c,
\* in the order of the calls.
SentOn(c) ==
    LET calls == SelectSeq(tx.returned, LAMBDA r : r.ok /\ r.conn = c)
    IN  [i \in 1..Len(calls) |-> calls[i].data]

\* The send_frame calls that have written on connection c without
\* returning true: the one in progress and the ones that returned false.
CutShortOn(c) ==
    (IF c = tx.socket_fd_ /\ tx.pc # "idle" THEN {tx.data} ELSE {})
       \cup {tx.returned[i].data : i \in {j \in 1..Len(tx.returned) :
                                            ~tx.returned[j].ok /\ tx.returned[j].conn = c}}

\* C32: what a connection has received reads as the payloads of the
\* send_frame calls that succeeded on it, whole and in order, each after
\* its big-endian length; what follows them, if anything, is the beginning
\* of one frame of a call that did not succeed, not the whole of it, and
\* once that call has returned nothing more is written on the connection.
C32_WholeFramesThenOneCut ==
    /\ [](\A c \in 1..tx.conns :
            LET read == ReadFrames(tx.wire[c], << >>) IN
            /\ read.frames = SentOn(c)
            /\ read.rest # << >> =>
                  /\ \E d \in CutShortOn(c) :
                        /\ IsPrefix(read.rest, Header(Len(d)) \o d)
                        /\ read.rest # Header(Len(d)) \o d
                  /\ tx.pc = "idle" => c # tx.socket_fd_)
    /\ [][\A c \in 1..tx.conns :
            (c # tx.socket_fd_ \/ (tx.pc = "idle" /\ tx'.pc = "idle"))
                => tx'.wire[c] = tx.wire[c]]_vars

\* One connection has received a whole frame and then a part of the
\* payload of the next, and a later connection has received a whole frame.
C32_Witness ==
    /\ tx.conns = 2 /\ tx.pc = "idle"
    /\ tx.wire[1] = << 0, 0, 0, 1, 7, 0, 0, 0, 2, 8 >>
    /\ tx.wire[2] = << 0, 0, 0, 2, 8, 9 >>

\* The worker takes the next message of local_queue in this step.
ProcessesMessage ==
    wpc = "process" /\ local_queue # << >> /\ local_queue' = Tail(local_queue)

\* The staging areas before and after a step, with the one of the records
\* of kind t first.
StagingOf(t) ==
    IF t = "event"
    THEN [own |-> event_queue_, other |-> log_queue_,
          own2 |-> event_queue_', other2 |-> log_queue_']
    ELSE [own |-> log_queue_, other |-> event_queue_,
          own2 |-> log_queue_', other2 |-> event_queue_']

\* C33: when the record the worker appends fills its staging area, the whole
\* area goes out as one batch of its kind, the area is empty afterwards and
\* the other area is as it was; no message is taken from local_queue until
\* that send has returned, and the batch is the next frame the worker
\* sends; between any two steps each staging area holds fewer than
\* batch_size records.
C33_FullStagingFlushed ==
    /\ [](Len(event_queue_) < batch_size /\ Len(log_queue_) < batch_size)
    /\ [][(ProcessesMessage /\ IsRecord(Head(local_queue)))
            => LET m == Head(local_queue)
                   s == StagingOf(Head(local_queue).t)
               IN /\ s.other2 = s.other
                  /\ IF Len(s.own) + 1 >= batch_size
                     THEN /\ s.own2 = << >>
                          /\ wpc' = "send" /\ ret' = "process"
                          /\ inflight'.recs = Append(s.own, m)
                          /\ inflight'.schema_type
                                = (IF m.t = "event" THEN "Event" ELSE "Log")
                     ELSE /\ s.own2 = Append(s.own, m)
                          /\ wpc' = "process" /\ inflight' = inflight]_vars
    /\ [][wpc = "send"
            => /\ local_queue' = local_queue
               /\ event_queue_' = event_queue_ /\ log_queue_' = log_queue_
               /\ wpc' # "send" =>
                     /\ wpc' = ret
                     /\ Len(frames') = Len(frames) + 1
                     /\ frames'[Len(frames')].by = "worker"
                     /\ frames'[Len(frames')].recs = inflight.recs
                     /\ frames'[Len(frames')].schema_type = inflight.schema_type]_vars

\* The worker has sent a batch of batch_size events because the staging area
\* was full, while a log record stays staged, and it is back at its
\* messages.
C33_Witness ==
    /\ wpc = "process" /\ ~should_flush /\ ~should_close
    /\ Len(log_queue_) = 1 /\ event_queue_ = << >>
    /\ \E i \in 1..Len(frames) :
          /\ frames[i].by = "worker" /\ frames[i].schema_type = "Event"
          /\ Len(frames[i].recs) = batch_size


\* The send_frame calls made for batch b, by any thread.
AttemptsFor(b) == {k \in 1..Len(frames) : frames[k].batch_id = b}

\* Retry thread i makes an attempt in this step.
RetryAttempts(i) ==
    /\ Len(frames') = Len(frames) + 1
    /\ frames'[Len(frames')].by = "retry"
    /\ frames'[Len(frames')].batch_id = retry_threads_[i].data.batch_id

\* C34: a batch is handed to send_frame once by the worker and then at most
\* max_retries times by its retry thread, 1 + max_retries times in all; no
\* call for it follows a successful one, so at most one succeeds; every
\* call carries the same batch: the same batch_id, kind and records; an
\* attempt of a retry thread takes no id from the batch counter; and a
\* retry thread attempts only after a sleep, each sleep serving one attempt.
C34_RetryAttempts ==
    /\ [](\A k \in 1..Len(frames) :
            LET b == frames[k].batch_id IN
            /\ Cardinality(FramesFor(b, "retry")) <= max_retries
            /\ Cardinality(FramesFor(b, "worker")) = 1
            /\ Cardinality(AttemptsFor(b)) <= 1 + max_retries
            /\ Cardinality({j \in AttemptsFor(b) : frames[j].ok}) <= 1
            /\ \A j \in AttemptsFor(b) :
                  j > k => /\ ~frames[k].ok
                           /\ frames[j].by = "retry"
                           /\ frames[j].recs = frames[k].recs
                           /\ frames[j].schema_type = frames[k].schema_type)
    /\ [][\A i \in 1..Len(retry_threads_) :
            /\ RetryAttempts(i) =>
                  /\ retry_threads_[i].slept /\ ~retry_threads_'[i].slept
                  /\ retry_threads_[i].st = "run"
                  /\ batch_counter_' = batch_counter_
            /\ (~retry_threads_[i].slept /\ retry_threads_'[i].slept) =>
                  /\ frames' = frames
                  /\ retry_threads_[i].attempt <= max_retries]_vars

\* C34 witness: with max_retries = 2 a batch failed at the worker, failed at
\* the first attempt of its retry thread and went through at the second,
\* after which the thread ended; another retry thread is in its sleep.
C34_Witness ==
    /\ max_retries = 2
    /\ \E i, j \in 1..Len(retry_threads_) :
          LET b == retry_threads_[i].data.batch_id IN
          /\ retry_threads_[i].st = "done"
          /\ Cardinality(FramesFor(b, "retry")) = 2
          /\ \E k \in FramesFor(b, "retry") : frames[k].ok
          /\ retry_threads_[j].st = "run" /\ ~retry_threads_[j].slept
          /\ retry_threads_[j].attempt = 2


\* Some retry thread has not ended: it sleeps or is about to send.
RetryPending == \E i \in 1..Len(retry_threads_) : retry_threads_[i].st = "run"

\* C35: the step in which send_or_retry starts a retry thread takes the
\* worker straight back to its loop; the worker can take its next step in
\* every state in which it is neither waiting on the channel nor finished,
\* whatever the retry threads are doing; if the retry threads never run
\* again the worker still drains the channel and sends what it staged,
\* again and again; the socket of transport_ changes only in a send_frame
\* or the close_connection of the worker, and an attempt of a retry thread,
\* made on its own transport, leaves both it and the worker's position as
\* they were.
C35_MainLoopNotStalled ==
    /\ [][Len(retry_threads_') > Len(retry_threads_) =>
             /\ wpc = "send" /\ wpc' = ret /\ wpc' # "send"
             /\ retry_threads_'[Len(retry_threads_')].data.batch_id = inflight.batch_id
             /\ ~retry_threads_'[Len(retry_threads_')].slept]_vars
    /\ [](wpc \notin {"sleeping", "done"} => ENABLED FlakyWorker)
    /\ []<>(/\ queue_ = << >> /\ local_queue = << >>
            /\ event_queue_ = << >> /\ log_queue_ = << >> /\ wpc # "send")
    /\ [][socket_fd_' # socket_fd_ =>
             /\ wpc \in {"send", "end"} /\ wpc' # wpc
             /\ retry_threads_' = retry_threads_
                   \/ Len(retry_threads_') > Len(retry_threads_)]_vars
    /\ [][\A i \in 1..Len(retry_threads_) :
             retry_threads_'[i] # retry_threads_[i] =>
                 /\ socket_fd_' = socket_fd_
                 /\ wpc' = wpc /\ inflight' = inflight
                 /\ local_queue' = local_queue
                 /\ event_queue_' = event_queue_ /\ log_queue_' = log_queue_]_vars

\* C35 witness: the first batch failed at the worker and its retry thread
\* has not made an attempt yet, while the worker has sent a later batch on
\* its own transport, which is connected, and is back waiting on the channel.
C35_Witness ==
    /\ Len(frames) = 2 /\ RetryPending
    /\ frames[1].by = "worker" /\ ~frames[1].ok
    /\ frames[2].by = "worker" /\ frames[2].ok
    /\ frames[2].batch_id # frames[1].batch_id
    /\ socket_fd_ >= 0
    /\ retry_threads_[1].data.batch_id = frames[1].batch_id
    /\ wpc = "sleeping"


\* Producer p has pushed onto an empty channel and has yet to notify.
OwesNotify(p) == pc[p] = "notify"

\* C36: a call goes on to notify exactly when its push found the channel
\* empty, and the worker is notified by nothing else; a worker that sleeps
\* while the channel holds a message has a notification pending or about to
\* be made; a message leaves the channel only into the worker's local_queue
\* or by eviction; and, with no help from the flush deadline, the channel
\* is empty again and again, so every message enqueued is drained or
\* evicted.
C36_NoLostWakeup ==
    /\ [][\A p \in Producers :
            /\ (~OwesNotify(p) /\ OwesNotify(p)') =>
                  (queue_ = << >> /\ queue_' # << >>)
            /\ (queue_' # queue_ /\ queue_' # << >> /\ pc[p] = "idle"
                /\ callno'[p] # callno[p]) =>
                  (OwesNotify(p)' <=> queue_ = << >>)]_vars
    /\ [][(~wake /\ wake') =>
             \E p \in Producers : OwesNotify(p) /\ ~OwesNotify(p)']_vars
    /\ []((wpc = "sleeping" /\ queue_ # << >>) =>
             (wake \/ \E p \in Producers : OwesNotify(p)))
    /\ [][\A m \in Range(queue_) :
             m \notin Range(queue_') =>
                 (m \in Range(local_queue') \/ m \in evicted')]_vars
    /\ []<>(queue_ = << >>)

\* C36 witness: the deadline has not passed; the worker sleeps, notified by
\* the call that pushed onto the empty channel; a second call has pushed
\* since and, finding a message there, has returned without notifying.
C36_Witness ==
    /\ wpc = "sleeping" /\ wake /\ ~deadline
    /\ Len(queue_) = 2
    /\ \A p \in Producers : pc[p] = "idle" /\ callno[p] = 1


\* Reading a data container back: the vector that field 0 of its table
\* leads to, the records given to the call, and the table that the i-th
\* offset of the vector leads to.
DataVector ==
    LET pos == TableStart + Slot(0) IN pos + U32(enc.out, pos)

Entries ==
    IF enc.fn = "encode_event_data_into" THEN enc.params.events ELSE enc.params.logs

EntryTable(i) ==
    LET pos == DataVector + 4 * i IN pos + U32(enc.out, pos)

\* The vtable slot of field k of the table at position t.
EntrySlot(t, k) == U16(enc.out, (t - U32(enc.out, t)) + 4 + 2 * k)

\* The offset fields of record a of a container.
EntryFields(a) ==
    IF enc.fn = "encode_event_data_into"
    THEN { Field(2, ~a.service.null, a.service, a.service_len),
           Field(3, ~a.device_id.null, a.device_id, 16),
           Field(4, ~a.session_id.null, a.session_id, 16),
           Field(5, ~a.event_name.null, a.event_name, a.event_name_len),
           Field(6, ~a.payload.null /\ a.payload_len # 0, a.payload, a.payload_len) }
    ELSE { Field(1, ~a.session_id.null, a.session_id, 16),
           Field(4, ~a.source.null, a.source, a.source_len),
           Field(5, ~a.service.null, a.service, a.service_len),
           Field(6, ~a.payload.null /\ a.payload_len # 0, a.payload, a.payload_len) }

\* The table at position t has field f as the record has it: absent, or
\* leading to the length and the bytes of f.
EntryHas(t, f) ==
    IF ~f.present THEN EntrySlot(t, f.slot) = 0
    ELSE /\ EntrySlot(t, f.slot) # 0
         /\ LET pos == t + EntrySlot(t, f.slot)
                target == pos + U32(enc.out, pos)
            IN  /\ target + 4 + Len(f.bytes) <= Len(enc.out)
                /\ U32(enc.out, target) = Len(f.bytes)
                /\ SubSeq(enc.out, target + 5, target + 4 + Len(f.bytes)) = f.bytes

\* The call is one of encode_event_data_into and encode_log_data_into and
\* has returned.
ContainerDone ==
    enc.pc = "done" /\ enc.fn \in {"encode_event_data_into", "encode_log_data_into"}

\* C37: the vector of a data container written for n records starts with
\* the count n, which n offsets follow; the i-th offset leads to a table
\* inside the message that has the fields of the i-th record; and the
\* tables lie behind the offsets in the order of the records.
C37_ContainerOrder ==
    ContainerDone =>
        LET n == Len(Entries) IN
        /\ U32(enc.out, DataVector) = n
        /\ DataVector + 4 + 4 * n <= Len(enc.out)
        /\ \A i \in 1..n :
              /\ EntryTable(i) >= DataVector + 4 + 4 * n
              /\ EntryTable(i) + 4 <= Len(enc.out)
              /\ \A f \in EntryFields(Entries[i]) : EntryHas(EntryTable(i), f)
              /\ i < n => EntryTable(i) < EntryTable(i + 1)

\* C37 witness: a container of two events that differ, the first without a
\* payload and the second with one, has been written behind other bytes.
C37_Witness ==
    /\ ContainerDone /\ enc.fn = "encode_event_data_into"
    /\ MessageStart # 0
    /\ Len(Entries) = 2
    /\ Entries[1].payload_len = 0 /\ Entries[2].payload_len # 0
    /\ EntrySlot(EntryTable(1), 6) = 0 /\ EntrySlot(EntryTable(2), 6) # 0


\* The internal locks that thread t holds between two of its steps.
LocksHeld(t) ==
    (IF mutex_ = t THEN {"mutex_"} ELSE {})
        \cup (IF super_props_mutex.w = t \/ t \in super_props_mutex.r
              THEN {"super_props_mutex"} ELSE {})
        \cup (IF session_mutex.w = t \/ t \in session_mutex.r
              THEN {"session_mutex"} ELSE {})

\* The positions from which the next step of a thread takes a lock, if only
\* for the length of that step: the entry of a call, read_super_props,
\* read_session_id and the push into the channel.
LockingPositions == {"idle", "read_super_props", "read_session_id", "send_event"}

\* Thread p takes a step.
StepsOf(p) == pc'[p] # pc[p] \/ local'[p] # local[p] \/ callno'[p] # callno[p]

\* Some thread is inside a call.
CallPending == \E p \in Producers : pc[p] # "idle"

\* C38: no thread holds two of the three locks; a thread whose next step
\* takes a lock holds none, and a thread that holds one takes no other and
\* does not push into the channel; the worker holds at most the channel
\* mutex, and that only around its wait and the swap of the channel, never
\* while it processes, flushes or sends; while a call is pending some thread
\* can take a step; and again and again no call is pending and no lock held,
\* so every call returns.
C38_OneLockNoDeadlock ==
    /\ [](\A t \in Producers \cup {"worker"} : Cardinality(LocksHeld(t)) <= 1)
    /\ [](\A p \in Producers :
            pc[p] \in LockingPositions \cup {"wait"} => LocksHeld(p) = {})
    /\ [][\A p \in Producers :
            (LocksHeld(p) # {} /\ StepsOf(p)) =>
                /\ pc[p] \notin LockingPositions
                /\ queue_' = queue_ /\ mutex_' = mutex_
                /\ "super_props_mutex" \notin LocksHeld(p) =>
                      super_props_mutex' = super_props_mutex
                /\ "session_mutex" \notin LocksHeld(p) =>
                      session_mutex' = session_mutex]_vars
    /\ [](/\ LocksHeld("worker") \subseteq {"mutex_"}
          /\ mutex_ = "worker" => wpc = "locked")
    /\ [](CallPending =>
            \/ \E p \in Producers : ENABLED ThreadStep(p)
            \/ ENABLED HealthyWorkerStep)
    /\ []<>(/\ ~CallPending
            /\ mutex_ = "free"
            /\ super_props_mutex = Unlocked /\ session_mutex = Unlocked)

\* C38 witness: the three locks are held by three threads at once: one
\* thread is in register_props, the other in the read_session_id of a
\* track, and the worker is at its wait.
C38_Witness ==
    /\ LocksHeld("p1") = {"super_props_mutex"}
    /\ LocksHeld("p2") = {"session_mutex"}
    /\ LocksHeld("worker") = {"mutex_"}
    /\ pc["p1"] = "parse_props_into_map" /\ pc["p2"] = "copy_session_id"


\* The messages that are in the channel, with the worker or in a batch
\* that was handed to the transport.
InPipeline ==
    Range(queue_) \cup Range(local_queue) \cup Range(event_queue_)
        \cup Range(log_queue_) \cup Range(inflight.recs)
        \cup UNION {Range(frames[i].recs) : i \in 1..Len(frames)}

\* Where a thread is inside register_props, unregister and reset_session.
PropsPositions == {"parse_props_into_map", "erase"}

MutatorPositions == PropsPositions \cup {"store_session_id"}

\* Thread p takes a step of a call that is at one of the positions P
\* before or after it.
StepsAt(p, P) == StepsOf(p) /\ (pc[p] \in P \/ pc'[p] \in P)

\* C39: an event is, wherever it is found after its push, in the channel,
\* with the worker or in a batch, the record that was pushed, with the
\* payload, session id and device id it had then; no step of
\* register_props, unregister or reset_session changes the channel or
\* anything the worker holds; a step of reset_session changes neither the
\* super properties nor the device id, a step of register_props or
\* unregister neither the session id nor the device id; and every event
\* carries the device id the client was constructed with.
C39_RecordsFrozen ==
    /\ [](\A m \in InPipeline :
            m.t = "event" =>
                /\ \E r \in placed : r.m = m
                /\ \A r \in placed : (r.m.p = m.p /\ r.m.n = m.n) => r.m = m
                /\ m.device_id = device_id)
    /\ [][\A p \in Producers :
            StepsAt(p, MutatorPositions) =>
                /\ queue_' = queue_ /\ placed' = placed /\ enqueued' = enqueued
                /\ UNCHANGED workerVars
                /\ local'[CHOOSE q \in Producers : q # p] =
                      local[CHOOSE q \in Producers : q # p]]_vars
    /\ [][\A p \in Producers :
            /\ StepsAt(p, {"store_session_id"}) =>
                  /\ super_props_map' = super_props_map
                  /\ super_props_mutex' = super_props_mutex
                  /\ device_id' = device_id
                  /\ mutlog' = mutlog
            /\ StepsAt(p, PropsPositions) =>
                  /\ session_id' = session_id
                  /\ session_mutex' = session_mutex
                  /\ device_id' = device_id]_vars
    /\ [][device_id' = device_id]_vars

\* C39 witness: an event pushed under the first session id is staged at the
\* worker as it was pushed; since then reset_session has run and returned,
\* and an event with the new session id and the same device id is in the
\* channel.
C39_Witness ==
    /\ session_id = << 2, 2 >> /\ session_mutex = Unlocked
    /\ \E m1 \in Range(event_queue_) : \E m2 \in Range(queue_) :
          /\ m1.t = "event" /\ m1.session_id = << 1, 1 >>
          /\ m2.t = "event" /\ m2.session_id = << 2, 2 >>
          /\ m1.device_id = m2.device_id
          /\ \E r \in placed : r.m = m1

====
